---- MODULE Spec2Model ----
(***************************************************************************)
(* Surface-load stress screening of buried pipe (surface-load-calc).       *)
(*                                                                         *)
(* The four vehicle engines (TRACK, 2_AXLE, 3_AXLE, GRID) are pure         *)
(* functions of one load case.  A state of the model is one load case      *)
(* together with the result each engine has returned for it so far.        *)
(*                                                                         *)
(* Numbers.  JavaScript numbers are modelled as exact rationals [n, d]     *)
(* (d > 0, lowest terms).  Math.sqrt is kept exact as a radical            *)
(* ([rad |-> TRUE, q |-> r] stands for sqrt(r)).  Stage outputs that need  *)
(* pi, exp or trigonometry (Boussinesq sum, CEPA hoop terms, axial bending *)
(* search) enter the engines as inputs of the load case.                   *)
(*                                                                         *)
(* The surface stage of the engines (tire contact patch, footprint grid,   *)
(* Boussinesq sum over the point loads, impact factor) is analysed by a    *)
(* second specification, SurfaceSpec, whose sessions each hold one request *)
(* to that stage and, once it has run, what it returned or threw.  The     *)
(* coefficient lookup, the footprints, the live load and the bending loop  *)
(* have sessions of the same kind in LoadStageSpec, the sensitivity sweep  *)
(* in SweepSpec and the run storage in StorageSpec.                        *)
(***************************************************************************)
EXTENDS Integers, Sequences, FiniteSets, TLC

VARIABLES inputs, results, conv, surface

vars == <<inputs, results, conv, surface>>

----------------------------------------------------------------------------
(* Exact rational arithmetic                                               *)

Abs(i) == IF i < 0 THEN -i ELSE i

RECURSIVE GCD(_, _)
GCD(a, b) == IF b = 0 THEN a ELSE GCD(b, a % b)

\* the rational n/d in lowest terms.  A zero denominator gives the IEEE 754
\* values of a division by zero: [1, 0] is Infinity, [-1, 0] is -Infinity
\* and [0, 0] is NaN.
RFrac(n, d) ==
  IF d = 0 THEN [n |-> IF n > 0 THEN 1 ELSE IF n < 0 THEN -1 ELSE 0, d |-> 0]
  ELSE LET s == IF d < 0 THEN -1 ELSE 1
           g == GCD(Abs(n), Abs(d))
       IN  [n |-> (s * n) \div g, d |-> (s * d) \div g]

R(i) == [n |-> i, d |-> 1]

IsNaN(a) == a.n = 0 /\ a.d = 0

RAdd(a, b) ==
  IF a.d = 0 \/ b.d = 0
  THEN IF a.d # 0 THEN b
       ELSE IF b.d # 0 \/ a.n = b.n THEN a ELSE RFrac(0, 0)
  ELSE LET g == GCD(a.d, b.d)
       IN  RFrac(a.n * (b.d \div g) + b.n * (a.d \div g), (a.d \div g) * b.d)

RNeg(a) == [n |-> -a.n, d |-> a.d]

RSub(a, b) == RAdd(a, RNeg(b))

\* cross-cancelled product
RMul(a, b) ==
  IF a.d = 0 \/ b.d = 0
  THEN IF IsNaN(a) \/ IsNaN(b) THEN RFrac(0, 0)
       ELSE RFrac((IF a.n > 0 THEN 1 ELSE IF a.n < 0 THEN -1 ELSE 0)
                  * (IF b.n > 0 THEN 1 ELSE IF b.n < 0 THEN -1 ELSE 0), 0)
  ELSE LET g1 == GCD(Abs(a.n), b.d)
           g2 == GCD(Abs(b.n), a.d)
       IN  RFrac((a.n \div g1) * (b.n \div g2), (a.d \div g2) * (b.d \div g1))

\* a / b; x / 0 is an infinity or NaN, x / Infinity is 0
RDiv(a, b) == RMul(a, RFrac(b.d, b.n))

\* a <= b, FALSE when either is NaN
RLe(a, b) ==
  IF a.d = 0 \/ b.d = 0
  THEN /\ ~IsNaN(a) /\ ~IsNaN(b)
       /\ IF a.d = 0 THEN a.n < 0 \/ (b.d = 0 /\ b.n > 0) ELSE b.n > 0
  ELSE LET g == GCD(a.d, b.d) IN a.n * (b.d \div g) <= b.n * (a.d \div g)

RLt(a, b) ==
  IF a.d = 0 \/ b.d = 0
  THEN /\ ~IsNaN(a) /\ ~IsNaN(b)
       /\ IF a.d = 0 THEN a.n < 0 /\ ~(b.d = 0 /\ b.n < 0)
          ELSE b.n > 0
  ELSE LET g == GCD(a.d, b.d) IN a.n * (b.d \div g) < b.n * (a.d \div g)

RAbs(a) == [n |-> Abs(a.n), d |-> a.d]

\* Math.max and Math.min are NaN when an argument is
RMax(a, b) == IF IsNaN(a) \/ IsNaN(b) THEN RFrac(0, 0) ELSE IF RLe(a, b) THEN b ELSE a

RMin(a, b) == IF IsNaN(a) \/ IsNaN(b) THEN RFrac(0, 0) ELSE IF RLe(a, b) THEN a ELSE b

----------------------------------------------------------------------------
(* Reals that may be a square root: [rad |-> FALSE, q] is q,               *)
(* [rad |-> TRUE, q] is sqrt(q) with q >= 0.  An equivalent stress is      *)
(* either all-Tresca (rad = FALSE) or all-Von Mises (rad = TRUE).          *)

Lin(q) == [rad |-> FALSE, q |-> q]

Sqrt(q) == [rad |-> TRUE, q |-> q]

\* Math.max / Math.min of two values of the same kind
NMax(x, y) == [rad |-> x.rad, q |-> RMax(x.q, y.q)]

NMin(x, y) == [rad |-> x.rad, q |-> RMin(x.q, y.q)]

\* x * c and x / c for a rational c > 0
NMulR(x, c) == [rad |-> x.rad, q |-> IF x.rad THEN RMul(RMul(x.q, c), c) ELSE RMul(x.q, c)]

NDivR(x, c) == [rad |-> x.rad, q |-> IF x.rad THEN RDiv(RDiv(x.q, c), c) ELSE RDiv(x.q, c)]

\* x <= r for a rational r
NLeR(x, r) == IF x.rad THEN r.n >= 0 /\ RLe(x.q, RMul(r, r)) ELSE RLe(x.q, r)

\* Math.abs
NAbs(x) == IF x.rad THEN x ELSE Lin(RAbs(x.q))

----------------------------------------------------------------------------
(* Optional values: <<>> is undefined, <<v>> is v                          *)

Undefined == <<>>

Some(v) == <<v>>

\* JavaScript truthiness of an optional number
Truthy(o) == o # Undefined /\ o[1] # R(0)

\* JavaScript  o || default  on an optional number
OrElse(o, default) == IF Truthy(o) THEN o[1] ELSE default

----------------------------------------------------------------------------
(* Bedding parameters                                                      *)

BeddingRow(Kb1000, Kz1000, Theta) ==
  [Kb |-> RFrac(Kb1000, 1000), Kz |-> RFrac(Kz1000, 1000), Theta |-> Theta]

\* vbaTrackEngine.ts calculateBeddingParams
calculateBeddingParams_Track(beddingAngleDeg) ==
  CASE beddingAngleDeg = 0   -> BeddingRow(110, 83, 135)
    [] beddingAngleDeg = 30  -> BeddingRow(108, 88, 130)
    [] beddingAngleDeg = 60  -> BeddingRow(105, 100, 120)
    [] beddingAngleDeg = 90  -> BeddingRow(103, 108, 105)
    [] beddingAngleDeg = 120 -> BeddingRow(101, 116, 90)
    [] beddingAngleDeg = 150 -> BeddingRow(100, 120, 75)
    [] beddingAngleDeg = 180 -> BeddingRow(96, 127, 60)
    [] OTHER                 -> BeddingRow(103, 108, 105)

\* sharedCalculations calculateBeddingParams (2_AXLE, 3_AXLE, GRID)
calculateBeddingParams(beddingAngleDeg) ==
  CASE beddingAngleDeg = 0   -> BeddingRow(110, 83, 135)
    [] beddingAngleDeg = 30  -> BeddingRow(108, 88, 130)
    [] beddingAngleDeg = 60  -> BeddingRow(105, 100, 120)
    [] beddingAngleDeg = 90  -> BeddingRow(103, 108, 105)
    [] beddingAngleDeg = 120 -> BeddingRow(101, 116, 90)
    [] beddingAngleDeg = 150 -> BeddingRow(100, 120, 75)
    [] beddingAngleDeg = 180 -> BeddingRow(96, 127, 60)
    [] OTHER                 -> BeddingRow(103, 108, 105)

----------------------------------------------------------------------------
(* Modulus of soil reaction E'                                             *)

RECURSIVE RPowInt(_, _)
RPowInt(b, k) == IF k = 0 THEN R(1) ELSE RMul(b, RPowInt(b, k - 1))

\* Math.pow(base, exponent) for base > 0: exact for base 1 and for a
\* natural exponent; at the three table anchors with a fractional exponent
\* the value is rounded to six decimals.
Pow(base, exponent) ==
  CASE base = R(1)      -> R(1)
    [] exponent.d = 1 /\ exponent.n >= 0 -> RPowInt(base, exponent.n)
    [] base = RFrac(80, 100) /\ exponent = RFrac(48, 10) -> RFrac(342635, 1000000)
    [] base = RFrac(85, 100) /\ exponent = RFrac(45, 10) -> RFrac(481266, 1000000)
    [] base = RFrac(95, 100) /\ exponent = RFrac(33, 10) -> RFrac(844283, 1000000)

EPrimeRow(Epr1, Epr2x10, Epr3x10) ==
  [Epr1 |-> R(Epr1), Epr2 |-> RFrac(Epr2x10, 10), Epr3 |-> RFrac(Epr3x10, 10)]

\* ePrimeLookup.ts E_PRIME_TABLE[soilType][compaction]
E_PRIME_TABLE(soilType, compaction) ==
  LET base == CASE soilType = "FINE"              -> 1
                [] soilType = "COARSE_WITH_FINES" -> 2
                [] soilType = "COARSE_NO_FINES"   -> 3
  IN  CASE compaction = 80  -> EPrimeRow(500 * base, 10, 48)
        [] compaction = 85  -> EPrimeRow(700 * base, 10, 45)
        [] compaction = 90  -> EPrimeRow(1000 * base, 10, 40)
        [] compaction = 95  -> EPrimeRow(1500 * base, 10, 33)
        [] compaction = 100 -> EPrimeRow(3000 * base, 10, 25)

validCompactions == <<80, 85, 90, 95, 100>>

\* the row of the anchor at or below the compaction, without interpolation
getEPrimeCoefficients_LowerRow(soilType, compaction) ==
  LET below == {i \in 1..5 : RLe(R(validCompactions[i]), compaction)}
      last == CHOOSE i \in below : \A j \in below : j <= i
  IN  IF below = {} THEN E_PRIME_TABLE(soilType, 80)
      ELSE E_PRIME_TABLE(soilType, validCompactions[last])

\* ePrimeLookup.ts getEPrimeCoefficients; compaction is a rational
getEPrimeCoefficients(soilType, compaction) ==
  IF \E i \in 1..5 : compaction = R(validCompactions[i])
  THEN E_PRIME_TABLE(soilType, compaction.n)
  ELSE
    LET hits == {i \in 1..4 : RLe(R(validCompactions[i]), compaction)
                              /\ RLe(compaction, R(validCompactions[i + 1]))}
        first == CHOOSE i \in hits : \A j \in hits : i <= j
        lowerComp == IF hits = {} THEN 80 ELSE validCompactions[first]
        upperComp == IF hits = {} THEN 100 ELSE validCompactions[first + 1]
        lowerCoeffs == E_PRIME_TABLE(soilType, lowerComp)
        upperCoeffs == E_PRIME_TABLE(soilType, upperComp)
        factor == RDiv(RSub(compaction, R(lowerComp)), R(upperComp - lowerComp))
        Interp(lo, up) == RAdd(lo, RMul(factor, RSub(up, lo)))
    IN  IF RLt(compaction, R(80)) THEN E_PRIME_TABLE(soilType, 80)
        ELSE IF RLt(R(100), compaction) THEN E_PRIME_TABLE(soilType, 100)
        ELSE [Epr1 |-> Interp(lowerCoeffs.Epr1, upperCoeffs.Epr1),
              Epr2 |-> Interp(lowerCoeffs.Epr2, upperCoeffs.Epr2),
              Epr3 |-> Interp(lowerCoeffs.Epr3, upperCoeffs.Epr3)]

\* ePrimeLookup.ts calculateEPrimeFromLookup
calculateEPrimeFromLookup(soilType, compaction, H_ft) ==
  LET coeffs == getEPrimeCoefficients(soilType, compaction)
  IN  RMul(RMul(coeffs.Epr1, Pow(coeffs.Epr2, H_ft)),
           Pow(RDiv(compaction, R(100)), coeffs.Epr3))

\* sharedCalculations calculateEPrime: userDefined_psi, soilType and
\* compaction are optional
calculateEPrime(method, userDefined_psi, soilType, compaction, H_ft) ==
  IF method = "USER_DEFINED" /\ Truthy(userDefined_psi)
  THEN userDefined_psi[1]
  ELSE LET soilTypeKey == IF soilType # Undefined THEN soilType[1] ELSE "COARSE_WITH_FINES"
           compactionValue == IF Truthy(compaction) THEN compaction[1] ELSE R(90)
       IN  calculateEPrimeFromLookup(soilTypeKey, compactionValue, H_ft)

\* vbaTrackEngine.ts calculateEPrime
calculateEPrime_Track(i) ==
  IF i.ePrimeMethod = "USER_DEFINED" /\ Truthy(i.ePrimeUserDefined_psi)
  THEN i.ePrimeUserDefined_psi[1]
  ELSE LET soilType == IF i.soilType # Undefined THEN i.soilType[1] ELSE "COARSE_WITH_FINES"
           compaction == IF Truthy(i.compaction) THEN i.compaction[1] ELSE R(90)
           Epr1 == CASE soilType = "FINE" -> R(500)
                     [] soilType = "COARSE_WITH_FINES" -> R(1000)
                     [] OTHER -> R(1500)
           Epr2 == R(1)
           Epr3 == R(2)
       IN  RMul(RMul(Epr1, Pow(Epr2, i.H_ft)), Pow(RDiv(compaction, R(100)), Epr3))

----------------------------------------------------------------------------
(* Soil load on the pipe.  The arching pressure needs exp and sin/tan; it  *)
(* is kept as the term of its arguments (form names the formula used).     *)

PrismLoad(rho_lbft3, H_ft) == RDiv(RMul(rho_lbft3, H_ft), R(144))

ArchingLoad(form, rho_lbft3, H_ft, D_in, frictionAngleDeg, cohesion) ==
  [form |-> form, rho |-> rho_lbft3, H |-> H_ft, D |-> D_in,
   phi |-> frictionAngleDeg, c |-> cohesion]

\* vbaTrackEngine.ts calculateSoilLoad
calculateSoilLoad_Track(i) ==
  IF i.soilLoadMethod = "PRISM"
  THEN PrismLoad(i.rho_lbft3, i.H_ft)
  ELSE LET H_in == RMul(i.H_ft, R(12))
       IN  IF RLt(H_in, RMul(RFrac(5, 2), i.D_in))
           THEN PrismLoad(i.rho_lbft3, i.H_ft)
           ELSE ArchingLoad("RANKINE_KA", i.rho_lbft3, i.H_ft, i.D_in,
                            i.frictionAngleDeg, i.soilCohesion_psi)

\* TRAP_DOOR without the fallback to the prism load
TrapDoorAlwaysArching(method, Rho_lbft3, H_ft, D_in, frictionAngleDeg, cohesion_psi) ==
  IF method = "PRISM"
  THEN PrismLoad(Rho_lbft3, H_ft)
  ELSE ArchingLoad("TAN_PHI", Rho_lbft3, H_ft, D_in, frictionAngleDeg,
                   cohesion_psi)

\* sharedCalculations calculateSoilLoad
calculateSoilLoad(method, Rho_lbft3, H_ft, D_in, frictionAngleDeg, cohesion_psi) ==
  IF method = "PRISM"
  THEN PrismLoad(Rho_lbft3, H_ft)
  ELSE LET H_in == RMul(H_ft, R(12))
       IN  IF RLt(H_in, RMul(RFrac(5, 2), D_in))
           THEN PrismLoad(Rho_lbft3, H_ft)
           ELSE ArchingLoad("TAN_PHI", Rho_lbft3, H_ft, D_in,
                            frictionAngleDeg, cohesion_psi)

----------------------------------------------------------------------------
(* Scalar unit conversion (unitConversions): two versions of the module    *)
(* exist in the repository, with different SI units for length, force and  *)
(* density.  A factor 1 / K is the exact reciprocal.                       *)

IN_TO_M == RFrac(254, 10000)
FT_TO_M == RFrac(3048, 10000)
PSI_TO_KPA == RFrac(689476, 100000)
LB_TO_KN == RFrac(444822, 100000000)
LB_FT3_TO_KN_M3 == RFrac(157087, 1000000)
IN_TO_MM == RFrac(254, 10)
PSI_TO_MPA == RFrac(689476, 100000000)
LB_TO_KG == RFrac(453592, 1000000)
LB_FT3_TO_KG_M3 == RFrac(160185, 10000)

\* a factor that leaves the value as it is
UnitFactor(K) == R(1)

\* 1 / K, as in M_TO_IN = 1 / IN_TO_M
Reciprocal(K) == RDiv(R(1), K)

\* the factor K of xConv.toSI in each version; xConv.toEN uses 1 / K
ConvFactor(version, conversionType) ==
  CASE conversionType = "length"  -> IF version = "M_KN" THEN IN_TO_M ELSE IN_TO_MM
    [] conversionType = "depth"   -> FT_TO_M
    [] conversionType \in {"pressure", "tirePressure"} -> PSI_TO_KPA
    [] conversionType = "smys"    -> PSI_TO_MPA
    [] conversionType = "force"   -> IF version = "M_KN" THEN LB_TO_KN ELSE LB_TO_KG
    [] conversionType = "density" -> IF version = "M_KN" THEN LB_FT3_TO_KN_M3
                                     ELSE LB_FT3_TO_KG_M3

ConversionTypes(version) ==
  IF version = "M_KN"
  THEN {"length", "depth", "pressure", "force", "density"}
  ELSE {"length", "depth", "pressure", "smys", "force", "density", "temp",
        "tirePressure"}

toSI(version, conversionType, value) ==
  IF conversionType = "temp"
  THEN RDiv(RMul(RSub(value, R(32)), R(5)), R(9))
  ELSE RMul(value, ConvFactor(version, conversionType))

toEN(version, conversionType, value) ==
  IF conversionType = "temp"
  THEN RAdd(RDiv(RMul(value, R(9)), R(5)), R(32))
  ELSE RMul(value, Reciprocal(ConvFactor(version, conversionType)))

\* unitConversions convertInputsToEN(value, fromSystem, conversionType)
convertInputsToEN(version, value, fromSystem, conversionType) ==
  IF fromSystem = "EN" THEN value
  ELSE IF conversionType \in ConversionTypes(version)
       THEN toEN(version, conversionType, value)
       ELSE value

\* unitConversions convertOutputsFromEN(value, toSystem, conversionType)
convertOutputsFromEN(version, value, toSystem, conversionType) ==
  IF toSystem = "EN" THEN value
  ELSE IF conversionType \in ConversionTypes(version)
       THEN toSI(version, conversionType, value)
       ELSE value

----------------------------------------------------------------------------
(* Code compliance                                                         *)

\* codeProfiles CODE_PROFILES
CODE_PROFILES(codeCheck) ==
  CASE codeCheck = "B31_4" ->
         [code |-> "B31_4", hoopLimitPct |-> R(90), longLimitPct |-> R(90),
          equivLimitPct |-> R(90), usesSustainedLongCheck |-> TRUE]
    [] codeCheck = "B31_8" ->
         [code |-> "B31_8", hoopLimitPct |-> R(90), longLimitPct |-> R(90),
          equivLimitPct |-> R(90), usesSustainedLongCheck |-> FALSE]
    [] codeCheck = "CSA_Z662" ->
         [code |-> "CSA_Z662", hoopLimitPct |-> R(90), longLimitPct |-> R(90),
          equivLimitPct |-> R(90), usesSustainedLongCheck |-> FALSE]

\* codeProfiles getCodeProfile: an optional profile
getCodeProfile(codeCheck) ==
  IF codeCheck = "USER_DEFINED" THEN Undefined ELSE Some(CODE_PROFILES(codeCheck))

LimitsUsed(codeCheck, hoopLimitPct, longLimitPct, equivLimitPct, sustained) ==
  [code |-> codeCheck, hoopLimitPct |-> hoopLimitPct,
   longLimitPct |-> longLimitPct, equivLimitPct |-> equivLimitPct,
   usesSustainedLongCheck |-> sustained]

Max4(a, b, c, d) == NMax(NMax(a, b), NMax(c, d))
Min4(a, b, c, d) == NMin(NMin(a, b), NMin(c, d))

TrescaCase(hoop, long) == Lin(RAbs(RSub(hoop, long)))

VonMisesCase(hoop, long) ==
  Sqrt(RAdd(RSub(RMul(hoop, hoop), RMul(hoop, long)), RMul(long, long)))

\* vbaTrackEngine.ts calculateEquivalentStress
calculateEquivalentStress_Track(hoopHigh, hoopLow, longHigh, longLow, method) ==
  IF method = "TRESCA"
  THEN LET equiv_HH == TrescaCase(hoopHigh, longHigh)
           equiv_HL == TrescaCase(hoopHigh, longLow)
           equiv_LH == TrescaCase(hoopLow, longHigh)
           equiv_LL == TrescaCase(hoopLow, longLow)
       IN  [high |-> Max4(equiv_HH, equiv_HL, equiv_LH, equiv_LL),
            low |-> Min4(equiv_HH, equiv_HL, equiv_LH, equiv_LL),
            percentSMYS |-> R(0)]
  ELSE LET equiv_HH == VonMisesCase(hoopHigh, longHigh)
           equiv_HL == VonMisesCase(hoopHigh, longLow)
           equiv_LH == VonMisesCase(hoopLow, longHigh)
           equiv_LL == VonMisesCase(hoopLow, longLow)
       IN  [high |-> Max4(equiv_HH, equiv_HL, equiv_LH, equiv_LL),
            low |-> Min4(equiv_HH, equiv_HL, equiv_LH, equiv_LL),
            percentSMYS |-> R(0)]

\* sharedCalculations calculateEquivalentStress
calculateEquivalentStress(method, hoopHigh, hoopLow, longHigh, longLow, SMYS_psi) ==
  LET Case(hoop, long) == IF method = "TRESCA" THEN TrescaCase(hoop, long)
                          ELSE VonMisesCase(hoop, long)
      high == Max4(Case(hoopHigh, longHigh), Case(hoopHigh, longLow),
                   Case(hoopLow, longHigh), Case(hoopLow, longLow))
      low == Min4(Case(hoopHigh, longHigh), Case(hoopHigh, longLow),
                  Case(hoopLow, longHigh), Case(hoopLow, longLow))
  IN  [high |-> high, low |-> low, pctSMYS |-> NDivR(high, SMYS_psi)]

\* overall pass without the two equivalent flags
AllButEquivalent(hoopAtZero, hoopAtMOP, longitudinalAtZero, longitudinalAtMOP, equivalentAtZero, equivalentAtMOP) ==
  hoopAtZero /\ hoopAtMOP /\ longitudinalAtZero /\ longitudinalAtMOP

\* vbaTrackEngine.ts calculatePassFail: the conjunction assigned to overallPass
AllSix(hoopAtZero, hoopAtMOP, longitudinalAtZero, longitudinalAtMOP, equivalentAtZero, equivalentAtMOP) ==
  hoopAtZero /\ hoopAtMOP /\ longitudinalAtZero /\ longitudinalAtMOP
  /\ equivalentAtZero /\ equivalentAtMOP

\* vbaTrackEngine.ts calculatePassFail; s holds the stress arguments
calculatePassFail_Track(s, SMYS_psi, codeCheck, userDefinedHoopLimit, userDefinedLongLimit, userDefinedEquivLimit) ==
  LET profile == IF codeCheck = "USER_DEFINED" THEN Undefined
                 ELSE getCodeProfile(codeCheck)
      hasProfile == profile # Undefined
      hoopLimit == IF hasProfile THEN RDiv(profile[1].hoopLimitPct, R(100))
                   ELSE OrElse(userDefinedHoopLimit, RFrac(9, 10))
      longLimit == IF hasProfile THEN RDiv(profile[1].longLimitPct, R(100))
                   ELSE OrElse(userDefinedLongLimit, RFrac(9, 10))
      equivLimit == IF hasProfile THEN RDiv(profile[1].equivLimitPct, R(100))
                    ELSE OrElse(userDefinedEquivLimit, RFrac(9, 10))
      usesSustainedLongCheck ==
        IF hasProfile THEN profile[1].usesSustainedLongCheck ELSE FALSE
      hoopAllowable_psi == RMul(hoopLimit, SMYS_psi)
      longAllowable_psi == RMul(longLimit, SMYS_psi)
      equivAllowable_psi == RMul(equivLimit, SMYS_psi)
      hoopAtZero ==
        RLe(RMax(RAbs(s.hoopZeroHigh), RAbs(s.hoopZeroLow)), hoopAllowable_psi)
      hoopAtMOP ==
        RLe(RMax(RAbs(s.hoopMOPHigh), RAbs(s.hoopMOPLow)), hoopAllowable_psi)
      liveLongAtZero ==
        RLe(RMax(RAbs(s.longZeroHigh), RAbs(s.longZeroLow)), longAllowable_psi)
      liveLongAtMOP ==
        RLe(RMax(RAbs(s.longMOPHigh), RAbs(s.longMOPLow)), longAllowable_psi)
      sustainedZeroHigh == RAbs(RAdd(s.longTherm, s.longSoil_Zero))
      sustainedZeroLow == RAbs(RSub(s.longTherm, s.longSoil_Zero))
      sustainedZeroMax == RMax(sustainedZeroHigh, sustainedZeroLow)
      sustainedZeroPass == RLe(sustainedZeroMax, longAllowable_psi)
      sustainedMOPHigh ==
        RAbs(RAdd(RAdd(s.longInt_MOP, s.longTherm), s.longSoil_MOP))
      sustainedMOPLow ==
        RAbs(RSub(RAdd(s.longInt_MOP, s.longTherm), s.longSoil_MOP))
      sustainedMOPMax == RMax(sustainedMOPHigh, sustainedMOPLow)
      sustainedMOPPass == RLe(sustainedMOPMax, longAllowable_psi)
      longitudinalAtZero ==
        IF usesSustainedLongCheck THEN liveLongAtZero /\ sustainedZeroPass
        ELSE liveLongAtZero
      longitudinalAtMOP ==
        IF usesSustainedLongCheck THEN liveLongAtMOP /\ sustainedMOPPass
        ELSE liveLongAtMOP
      equivalentAtZero ==
        NLeR(NMax(NAbs(s.equivZeroHigh), NAbs(s.equivZeroLow)), equivAllowable_psi)
      equivalentAtMOP ==
        NLeR(NMax(NAbs(s.equivMOPHigh), NAbs(s.equivMOPLow)), equivAllowable_psi)
      overallPass == AllSix(hoopAtZero, hoopAtMOP, longitudinalAtZero,
                            longitudinalAtMOP, equivalentAtZero, equivalentAtMOP)
  IN  [hoopAtZero |-> hoopAtZero, hoopAtMOP |-> hoopAtMOP,
       longitudinalAtZero |-> longitudinalAtZero,
       longitudinalAtMOP |-> longitudinalAtMOP,
       equivalentAtZero |-> equivalentAtZero,
       equivalentAtMOP |-> equivalentAtMOP,
       overallPass |-> overallPass,
       allowableStress_psi |-> equivAllowable_psi,
       limitsUsed |-> LimitsUsed(codeCheck, RMul(hoopLimit, R(100)),
                                 RMul(longLimit, R(100)), RMul(equivLimit, R(100)),
                                 usesSustainedLongCheck)]

\* passFailHelpers calculatePassFail; userDefinedLimits is an optional
\* record, hoopMaxPct and longMaxPct are rationals, equivMaxPct may be a root
calculatePassFail(codeCheck, userDefinedLimits, hoopMaxPct, longMaxPct, equivMaxPct) ==
  LET profile == IF codeCheck = "USER_DEFINED" THEN Undefined
                 ELSE getCodeProfile(codeCheck)
      hasProfile == profile # Undefined
      UserLimit(field) == IF userDefinedLimits = Undefined THEN Undefined
                          ELSE Some(userDefinedLimits[1][field])
      hoopLimit == IF hasProfile THEN profile[1].hoopLimitPct
                   ELSE OrElse(UserLimit("hoopLimitPct"), R(90))
      longLimit == IF hasProfile THEN profile[1].longLimitPct
                   ELSE OrElse(UserLimit("longLimitPct"), R(90))
      equivLimit == IF hasProfile THEN profile[1].equivLimitPct
                    ELSE OrElse(UserLimit("equivLimitPct"), R(90))
      hoopPass == RLe(hoopMaxPct, hoopLimit)
      longPass == RLe(longMaxPct, longLimit)
      equivPass == NLeR(equivMaxPct, equivLimit)
      overallPass == hoopPass /\ longPass /\ equivPass
  IN  [hoopPass |-> hoopPass, longPass |-> longPass, equivPass |-> equivPass,
       overallPass |-> overallPass,
       allowableStress_psi |-> R(0),
       limitsUsed |-> LimitsUsed(codeCheck, hoopLimit, longLimit, equivLimit,
                                 IF hasProfile THEN profile[1].usesSustainedLongCheck
                                 ELSE FALSE)]

----------------------------------------------------------------------------
(* Reported quantities.  0.1450378911491 has no exact 32-bit fraction, so  *)
(* a reported pressure is the pair of its canonical (psi) magnitude v and  *)
(* the number f of divisions by 0.1450378911491 applied to it; zero is     *)
(* zero in either unit.                                                    *)

Plain(x) == [v |-> x, f |-> 0]

IsZero(x) == x \in {R(0), Lin(R(0)), Sqrt(R(0))}

\* x / 0.1450378911491
DivKPaFactor(x) == IF IsZero(x) THEN Plain(x) ELSE [v |-> x, f |-> 1]

\* vbaTrackEngine.ts psiToKPa
psiToKPa(psi) == DivKPaFactor(psi)

\* vbaTrackEngine.ts convertPressureToUserUnits
convertPressureToUserUnits_Track(psi, unitsSystem) ==
  IF unitsSystem = "SI" THEN psiToKPa(psi) ELSE Plain(psi)

\* sharedCalculations convertPressureToUserUnits
convertPressureToUserUnits(value_psi, unitsSystem) ==
  IF unitsSystem = "EN" THEN Plain(value_psi) ELSE DivKPaFactor(value_psi)

----------------------------------------------------------------------------
(* Engines.  A load case i carries the categorical inputs, the numeric     *)
(* inputs as canonical (EN) magnitudes, and in i.stage the outputs of the  *)
(* stages that need pi, exp or trigonometry (Boussinesq pressure with      *)
(* impact, hoop stress per unit pressure, longitudinal live stress).       *)

E_STEEL == R(30000000)
POISSON == RFrac(3, 10)
ALPHA == RFrac(65, 10000000)

\* E * Alpha * deltaT_F
ThermalStress(deltaT_F) == RMul(RMul(E_STEEL, ALPHA), deltaT_F)

\* Pint * D / (2 t), the internal-pressure term of calculateHoopStress
HoopInt(Pint_psi, D_in, t_in) == RDiv(RMul(Pint_psi, D_in), RMul(R(2), t_in))

\* How an engine reports a pressure: by its own conversion function (TRACK),
\* by the shared one (SHARED), or as computed (NONE)
Report(c, psi) ==
  CASE c.by = "TRACK" -> convertPressureToUserUnits_Track(psi, c.unitsSystem)
    [] c.by = "SHARED" -> convertPressureToUserUnits(psi, c.unitsSystem)
    [] c.by = "NONE" -> Plain(psi)

StressComponents(c, pressure, earth, thermal, total) ==
  [pressure |-> Report(c, pressure), earth |-> Report(c, earth), thermal |-> Report(c, thermal),
   total |-> Report(c, total)]

StressState(c, hoopHigh, hoopLow, hoopInt, hoopSoil, longHigh, longLow, longInt, longSoil, longTherm, equiv, percentSMYS) ==
  [hoop |-> [high |-> Report(c, hoopHigh), low |-> Report(c, hoopLow),
             components |-> StressComponents(c, hoopInt, hoopSoil, R(0), hoopHigh)],
   longitudinal |-> [high |-> Report(c, longHigh), low |-> Report(c, longLow),
                     components |-> StressComponents(c, longInt, longSoil,
                                                     longTherm, longHigh)],
   equivalent |-> [high |-> Report(c, equiv.high), low |-> Report(c, equiv.low),
                   percentSMYS |-> percentSMYS]]

DebugValues(c, soilPressure, boussinesqMax, bedding, ePrime, hoopSoil, hoopLive, hoopInt, longSoil, longLive, longInt, longTherm) ==
  [soilPressure_psi |-> Report(c, soilPressure), boussinesqMax_psi |-> Report(c, boussinesqMax),
   Kb |-> bedding.Kb, Kz |-> bedding.Kz, Theta |-> bedding.Theta,
   ePrime_psi |-> Report(c, ePrime), hoopSoil_psi |-> Report(c, hoopSoil),
   hoopLive_psi |-> Report(c, hoopLive), hoopInt_psi |-> Report(c, hoopInt),
   longSoil_psi |-> Report(c, longSoil), longLive_psi |-> Report(c, longLive),
   longInt_psi |-> Report(c, longInt), longTherm_psi |-> Report(c, longTherm)]

\* vbaTrackEngine.ts convertInputsToEN: the optional fields
convertInputsToEN_Track(i) ==
  LET Limit(field) == IF i.userDefinedLimits # Undefined
                      THEN Some(RDiv(i.userDefinedLimits[1][field], R(100)))
                      ELSE Undefined
  IN  [ePrimeMethod |-> i.ePrimeMethod,
       ePrimeUserDefined_psi |-> IF Truthy(i.ePrimeUserDefined)
                                 THEN i.ePrimeUserDefined ELSE Undefined,
       soilType |-> i.soilType, compaction |-> i.compaction, H_ft |-> i.H_ft,
       soilLoadMethod |-> i.soilLoadMethod, rho_lbft3 |-> i.rho_lbft3,
       D_in |-> i.D_in, frictionAngleDeg |-> i.frictionAngleDeg,
       soilCohesion_psi |-> i.soilCohesion_psi,
       userDefinedHoopLimit |-> Limit("hoopLimitPct"),
       userDefinedLongLimit |-> Limit("longLimitPct"),
       userDefinedEquivLimit |-> Limit("equivLimitPct")]

\* vbaTrackEngine.ts calculateTrackVehicleVBA, steps (1) to (10): the values
\* computed before pass/fail
TrackStresses(i, inputsEN) ==
  LET hoopSoil_Zero == i.stage.hoopSoil_Zero
      hoopLive_Zero == i.stage.hoopLive_Zero
      hoopInt_Zero == R(0)
      hoopZeroHigh == RAdd(RAdd(hoopSoil_Zero, hoopLive_Zero), hoopInt_Zero)
      hoopZeroLow == RAdd(RSub(hoopSoil_Zero, hoopLive_Zero), hoopInt_Zero)
      hoopSoil_MOP == i.stage.hoopSoil_MOP
      hoopLive_MOP == i.stage.hoopLive_MOP
      hoopInt_MOP == HoopInt(i.MOP_psi, i.D_in, i.t_in)
      hoopMOPHigh == RAdd(RAdd(hoopSoil_MOP, hoopLive_MOP), hoopInt_MOP)
      hoopMOPLow == RAdd(RSub(hoopSoil_MOP, hoopLive_MOP), hoopInt_MOP)
      longSoil_Zero == RMul(POISSON, hoopSoil_Zero)
      longInt_Zero == R(0)
      longTherm == ThermalStress(i.deltaT_F)
      longLive_Zero == i.stage.longLive_Zero
      longZeroHigh ==
        RAdd(RAdd(RAdd(longSoil_Zero, longLive_Zero), longInt_Zero), longTherm)
      longZeroLow ==
        RAdd(RAdd(RSub(longSoil_Zero, longLive_Zero), longInt_Zero), longTherm)
      longSoil_MOP == RMul(POISSON, hoopSoil_MOP)
      longInt_MOP == RMul(POISSON, hoopInt_MOP)
      longLive_MOP == i.stage.longLive_MOP
      longMOPHigh ==
        RAdd(RAdd(RAdd(longSoil_MOP, longLive_MOP), longInt_MOP), longTherm)
      longMOPLow ==
        RAdd(RAdd(RSub(longSoil_MOP, longLive_MOP), longInt_MOP), longTherm)
  IN  [bedding |-> calculateBeddingParams_Track(i.beddingAngleDeg),
       ePrime_psi |-> calculateEPrime_Track(inputsEN),
       soilPressure_psi |-> calculateSoilLoad_Track(inputsEN),
       bsnqMax_psi |-> i.stage.bsnqMax_psi, bsnqIF_psi |-> i.stage.bsnqIF_psi,
       hoopSoil_Zero |-> hoopSoil_Zero, hoopLive_Zero |-> hoopLive_Zero,
       hoopSoil_MOP |-> hoopSoil_MOP, hoopLive_MOP |-> hoopLive_MOP,
       hoopInt_MOP |-> hoopInt_MOP,
       hoopZeroHigh |-> hoopZeroHigh, hoopZeroLow |-> hoopZeroLow,
       hoopMOPHigh |-> hoopMOPHigh, hoopMOPLow |-> hoopMOPLow,
       longSoil_Zero |-> longSoil_Zero, longTherm |-> longTherm,
       longSoil_MOP |-> longSoil_MOP, longInt_MOP |-> longInt_MOP,
       longLive_MOP |-> longLive_MOP,
       longZeroHigh |-> longZeroHigh, longZeroLow |-> longZeroLow,
       longMOPHigh |-> longMOPHigh, longMOPLow |-> longMOPLow]

\* steps (10) and (11): equivalent stresses and pass/fail of the values s
TrackPassFail(i, inputsEN, s, equivZero, equivMOP) ==
  calculatePassFail_Track(
    [hoopZeroHigh |-> s.hoopZeroHigh, hoopZeroLow |-> s.hoopZeroLow,
     hoopMOPHigh |-> s.hoopMOPHigh, hoopMOPLow |-> s.hoopMOPLow,
     longZeroHigh |-> s.longZeroHigh, longZeroLow |-> s.longZeroLow,
     longMOPHigh |-> s.longMOPHigh, longMOPLow |-> s.longMOPLow,
     longSoil_Zero |-> s.longSoil_Zero, longTherm |-> s.longTherm,
     longSoil_MOP |-> s.longSoil_MOP, longInt_MOP |-> s.longInt_MOP,
     equivZeroHigh |-> equivZero.high, equivZeroLow |-> equivZero.low,
     equivMOPHigh |-> equivMOP.high, equivMOPLow |-> equivMOP.low],
    i.SMYS_psi, i.codeCheck, inputsEN.userDefinedHoopLimit,
    inputsEN.userDefinedLongLimit, inputsEN.userDefinedEquivLimit)

\* the results object, every pressure converted to the user's units
TrackResults(unitsSystem, s, equivZero, equivMOP, passFailSummary) ==
  LET c == [by |-> "TRACK", unitsSystem |-> unitsSystem]
  IN  [maxSurfacePressureOnPipe |-> Report(c, s.bsnqIF_psi),
       stresses |->
         [atZeroPressure |->
            StressState(c, s.hoopZeroHigh, s.hoopZeroLow, R(0), s.hoopSoil_Zero,
                        s.longZeroHigh, s.longZeroLow, R(0), s.longSoil_Zero,
                        s.longTherm, equivZero, equivZero.percentSMYS),
          atMOP |->
            StressState(c, s.hoopMOPHigh, s.hoopMOPLow, s.hoopInt_MOP,
                        s.hoopSoil_MOP, s.longMOPHigh, s.longMOPLow,
                        s.longInt_MOP, s.longSoil_MOP, s.longTherm, equivMOP,
                        equivMOP.percentSMYS)],
       allowableStress |-> Report(c, passFailSummary.allowableStress_psi),
       passFailSummary |->
         [hoopAtZero |-> passFailSummary.hoopAtZero,
          hoopAtMOP |-> passFailSummary.hoopAtMOP,
          longitudinalAtZero |-> passFailSummary.longitudinalAtZero,
          longitudinalAtMOP |-> passFailSummary.longitudinalAtMOP,
          equivalentAtZero |-> passFailSummary.equivalentAtZero,
          equivalentAtMOP |-> passFailSummary.equivalentAtMOP,
          overallPass |-> passFailSummary.overallPass],
       limitsUsed |-> passFailSummary.limitsUsed,
       ePrimeUsed |-> Report(c, s.ePrime_psi),
       soilLoadOnPipe |-> Report(c, s.soilPressure_psi),
       debug |-> DebugValues(c, s.soilPressure_psi, s.bsnqMax_psi, s.bedding,
                             s.ePrime_psi, s.hoopSoil_MOP, s.hoopLive_MOP,
                             s.hoopInt_MOP, s.longSoil_MOP, s.longLive_MOP,
                             s.longInt_MOP, s.longTherm)]

TrackFromStresses(i, inputsEN, s, equivZero, equivMOP) ==
  TrackResults(i.unitsSystem, s, equivZero, equivMOP,
               TrackPassFail(i, inputsEN, s, equivZero, equivMOP))

TrackFromInputsEN(i, inputsEN, s) ==
  TrackFromStresses(i, inputsEN, s,
    calculateEquivalentStress_Track(s.hoopZeroHigh, s.hoopZeroLow, s.longZeroHigh,
                                    s.longZeroLow, i.equivStressMethod),
    calculateEquivalentStress_Track(s.hoopMOPHigh, s.hoopMOPLow, s.longMOPHigh,
                                    s.longMOPLow, i.equivStressMethod))

TrackFromInputs(i, inputsEN) ==
  TrackFromInputsEN(i, inputsEN, TrackStresses(i, inputsEN))

\* vbaTrackEngine.ts calculateTrackVehicleVBA
calculateTrackVehicleVBA(i) == TrackFromInputs(i, convertInputsToEN_Track(i))

\* Percentage of SMYS:  stress / SMYS_psi * 100
PctOfSMYS(stress, SMYS_psi) == RMul(RDiv(stress, SMYS_psi), R(100))

\* convertInputsToEN of the axle and grid engines: the Eprime_psi field
Eprime_psi(i) ==
  IF i.unitsSystem # "SI" THEN i.ePrimeUserDefined
  ELSE IF Truthy(i.ePrimeUserDefined) THEN i.ePrimeUserDefined ELSE Undefined

\* The soil, E' and stress-combination block, textually the same in
\* calculate2AxleVehicleVBA, calculate3AxleVehicleVBA and calculateGridLoadVBA
CombinedStresses(i) ==
  LET ePrime == calculateEPrime(i.ePrimeMethod, Eprime_psi(i), i.soilType,
                                i.compaction, i.H_ft)
      soilLoad == calculateSoilLoad(i.soilLoadMethod, i.rho_lbft3, i.H_ft, i.D_in,
                                    i.frictionAngleDeg, i.soilCohesion_psi)
      bedding == calculateBeddingParams(i.beddingAngleDeg)
      stressZero == [hoopSoil |-> i.stage.hoopSoil_Zero,
                     hoopLive |-> i.stage.hoopLive_Zero, hoopInt |-> R(0)]
      stressMOP == [hoopSoil |-> i.stage.hoopSoil_MOP,
                    hoopLive |-> i.stage.hoopLive_MOP,
                    hoopInt |-> HoopInt(i.MOP_psi, i.D_in, i.t_in)]
      longTherm_psi == ThermalStress(i.deltaT_F)
      hoopZeroHigh == RAdd(stressZero.hoopSoil, stressZero.hoopLive)
      hoopZeroLow == stressZero.hoopSoil
      hoopMOPHigh == RAdd(RAdd(stressMOP.hoopSoil, stressMOP.hoopLive),
                          stressMOP.hoopInt)
      hoopMOPLow == RAdd(stressMOP.hoopSoil, stressMOP.hoopInt)
      Poisson == RFrac(3, 10)
      longZeroHigh == RAdd(RAdd(RMul(Poisson, stressZero.hoopSoil),
                                i.stage.longLive_Zero), longTherm_psi)
      longZeroLow == RAdd(RMul(Poisson, stressZero.hoopSoil), longTherm_psi)
      longMOPHigh == RAdd(RAdd(RAdd(RMul(Poisson, stressMOP.hoopSoil),
                                    i.stage.longLive_MOP),
                               RMul(Poisson, stressMOP.hoopInt)), longTherm_psi)
      longMOPLow == RAdd(RAdd(RMul(Poisson, stressMOP.hoopSoil),
                              RMul(Poisson, stressMOP.hoopInt)), longTherm_psi)
  IN  [ePrime_psi |-> ePrime, Psoil_psi |-> soilLoad, bedding |-> bedding,
       BsnqIF |-> i.stage.bsnqIF_psi, maxPressure_psi |-> i.stage.bsnqMax_psi,
       stressZero |-> stressZero, stressMOP |-> stressMOP,
       longLive_Zero |-> i.stage.longLive_Zero,
       longLive_MOP |-> i.stage.longLive_MOP,
       longTherm_psi |-> longTherm_psi, Poisson |-> Poisson,
       hoopZeroHigh |-> hoopZeroHigh, hoopZeroLow |-> hoopZeroLow,
       hoopMOPHigh |-> hoopMOPHigh, hoopMOPLow |-> hoopMOPLow,
       longZeroHigh |-> longZeroHigh, longZeroLow |-> longZeroLow,
       longMOPHigh |-> longMOPHigh, longMOPLow |-> longMOPLow,
       equivZero |-> calculateEquivalentStress(
                       i.equivStressMethod, hoopZeroHigh, hoopZeroLow,
                       longZeroHigh, longZeroLow, i.SMYS_psi),
       equivMOP |-> calculateEquivalentStress(
                       i.equivStressMethod, hoopMOPHigh, hoopMOPLow,
                       longMOPHigh, longMOPLow, i.SMYS_psi)]

\* The results object of the axle and grid engines, every pressure field
\* passed through c
AxleResults(c, s, passFailResult) ==
  [maxSurfacePressureOnPipe |-> Report(c, s.BsnqIF),
   stresses |->
     [atZeroPressure |->
        StressState(c, s.hoopZeroHigh, s.hoopZeroLow, R(0), s.stressZero.hoopSoil,
                    s.longZeroHigh, s.longZeroLow, R(0),
                    RMul(s.Poisson, s.stressZero.hoopSoil), s.longTherm_psi,
                    s.equivZero, s.equivZero.pctSMYS),
      atMOP |->
        StressState(c, s.hoopMOPHigh, s.hoopMOPLow, s.stressMOP.hoopInt,
                    s.stressMOP.hoopSoil, s.longMOPHigh, s.longMOPLow,
                    RMul(s.Poisson, s.stressMOP.hoopInt),
                    RMul(s.Poisson, s.stressMOP.hoopSoil), s.longTherm_psi,
                    s.equivMOP, s.equivMOP.pctSMYS)],
   allowableStress |-> Report(c, passFailResult.allowableStress_psi),
   passFailSummary |->
     [hoopAtZero |-> passFailResult.hoopPass,
      hoopAtMOP |-> passFailResult.hoopPass,
      longitudinalAtZero |-> passFailResult.longPass,
      longitudinalAtMOP |-> passFailResult.longPass,
      equivalentAtZero |-> passFailResult.equivPass,
      equivalentAtMOP |-> passFailResult.equivPass,
      overallPass |-> passFailResult.overallPass],
   limitsUsed |-> passFailResult.limitsUsed,
   ePrimeUsed |-> Report(c, s.ePrime_psi),
   soilLoadOnPipe |-> Report(c, s.Psoil_psi),
   debug |-> DebugValues(c, s.Psoil_psi, s.maxPressure_psi, s.bedding,
                         s.ePrime_psi, s.stressMOP.hoopSoil, s.stressMOP.hoopLive,
                         s.stressMOP.hoopInt,
                         RMul(s.Poisson, s.stressMOP.hoopSoil), s.longLive_MOP,
                         RMul(s.Poisson, s.stressMOP.hoopInt), s.longTherm_psi)]

\* calculate2AxleVehicleVBA: pass/fail of the combined stresses s
PassFail2Axle(i, s) ==
  calculatePassFail(
    i.codeCheck, i.userDefinedLimits,
    PctOfSMYS(RMax(RAbs(s.hoopZeroHigh), RAbs(s.hoopMOPHigh)), i.SMYS_psi),
    PctOfSMYS(RMax(RAbs(s.longZeroHigh), RAbs(s.longMOPHigh)), i.SMYS_psi),
    NMax(s.equivZero.pctSMYS, s.equivMOP.pctSMYS))

\* calculate2AxleVehicleVBA: the returned object, of which only
\* maxSurfacePressureOnPipe is converted
Exit2Axle(unitsSystem, unconverted) ==
  [unconverted EXCEPT !.maxSurfacePressureOnPipe =
     convertPressureToUserUnits(@.v, unitsSystem)]

Results2Axle(i, s) ==
  Exit2Axle(i.unitsSystem, AxleResults([by |-> "NONE", unitsSystem |-> i.unitsSystem], s,
                                       PassFail2Axle(i, s)))

\* vba2AxleEngine calculate2AxleVehicleVBA
calculate2AxleVehicleVBA(i) == Results2Axle(i, CombinedStresses(i))

\* The sustained value and pass/fail shared textually by
\* calculate3AxleVehicleVBA and calculateGridLoadVBA
SustainedPassFail(i, s) ==
  LET longInt_Zero == R(0)
      longInt_MOP == RMul(s.Poisson, s.stressMOP.hoopInt)
      longSoil_Zero == RMul(s.Poisson, s.stressZero.hoopSoil)
      longSoil_MOP == RMul(s.Poisson, s.stressMOP.hoopSoil)
      sustainedZeroHigh ==
        RAbs(RAdd(RAdd(longInt_Zero, longSoil_Zero), s.longTherm_psi))
      sustainedZeroLow ==
        RAbs(RAdd(RSub(longInt_Zero, longSoil_Zero), s.longTherm_psi))
      sustainedMOPHigh ==
        RAbs(RAdd(RAdd(longInt_MOP, longSoil_MOP), s.longTherm_psi))
      sustainedMOPLow ==
        RAbs(RAdd(RSub(longInt_MOP, longSoil_MOP), s.longTherm_psi))
      sustainedMax == RMax(RMax(sustainedZeroHigh, sustainedZeroLow),
                           RMax(sustainedMOPHigh, sustainedMOPLow))
      sustainedLongMaxPct ==
        IF i.codeCheck = "B31_4" THEN PctOfSMYS(sustainedMax, i.SMYS_psi)
        ELSE R(0)
      hoopMaxPct ==
        PctOfSMYS(RMax(RAbs(s.hoopZeroHigh), RAbs(s.hoopMOPHigh)), i.SMYS_psi)
      longMaxPct ==
        PctOfSMYS(RMax(RMax(RAbs(s.longZeroHigh), RAbs(s.longMOPHigh)),
                       sustainedLongMaxPct), i.SMYS_psi)
      equivMaxPct == NMulR(NMax(s.equivZero.pctSMYS, s.equivMOP.pctSMYS), R(100))
  IN  calculatePassFail(i.codeCheck, i.userDefinedLimits,
                        hoopMaxPct, longMaxPct, equivMaxPct)

\* The exit conversion of calculate3AxleVehicleVBA and calculateGridLoadVBA:
\* every pressure field of the results object is converted
ConvertedResults(unitsSystem, s, passFailResult) ==
  AxleResults([by |-> "SHARED", unitsSystem |-> unitsSystem], s, passFailResult)

SustainedResults(i, s) ==
  ConvertedResults(i.unitsSystem, s, SustainedPassFail(i, s))

SustainedPassFailAndExit(i) == SustainedResults(i, CombinedStresses(i))

\* vba3AxleEngine.ts calculate3AxleVehicleVBA
calculate3AxleVehicleVBA(i) == SustainedPassFailAndExit(i)

\* vbaGridEngine.ts calculateGridLoadVBA
calculateGridLoadVBA(i) == SustainedPassFailAndExit(i)

----------------------------------------------------------------------------
(* Surface stage: thrown errors                                            *)

\* throw new Error(message): the call returns nothing
Thrown(message) == [ok |-> FALSE, error |-> message]

\* a normal return
Returned(value) == [ok |-> TRUE, value |-> value]

----------------------------------------------------------------------------
(* Dispatcher                                                              *)

\* the dispatcher with the TRACK tag routed to the 2-axle engine
computeSurfaceLoad_Misrouted(config) ==
  CASE config.type \in {"TRACK", "2_AXLE"} ->
         Returned([type |-> config.type,
                   results |-> calculate2AxleVehicleVBA(config.inputs)])
    [] config.type = "3_AXLE" ->
         Returned([type |-> "3_AXLE", results |-> calculate3AxleVehicleVBA(config.inputs)])
    [] config.type = "GRID" ->
         Returned([type |-> "GRID", results |-> calculateGridLoadVBA(config.inputs)])
    [] OTHER -> Thrown("Unknown calculation type")

\* computeSurfaceLoad.ts computeSurfaceLoad; calculatePipelineTrack of
\* calculations.ts is calculateTrackVehicleVBA
computeSurfaceLoad(config) ==
  CASE config.type = "TRACK" ->
         Returned([type |-> "TRACK", results |-> calculateTrackVehicleVBA(config.inputs)])
    [] config.type = "2_AXLE" ->
         Returned([type |-> "2_AXLE", results |-> calculate2AxleVehicleVBA(config.inputs)])
    [] config.type = "3_AXLE" ->
         Returned([type |-> "3_AXLE", results |-> calculate3AxleVehicleVBA(config.inputs)])
    [] config.type = "GRID" ->
         Returned([type |-> "GRID", results |-> calculateGridLoadVBA(config.inputs)])
    [] OTHER -> Thrown("Unknown calculation type")

\* computeSurfaceLoad.ts isPassingCalculation
isPassingCalculation(surfaceLoadResults) ==
  IF surfaceLoadResults.type \in {"TRACK", "2_AXLE", "3_AXLE", "GRID"}
  THEN surfaceLoadResults.results.passFailSummary.overallPass
  ELSE FALSE


----------------------------------------------------------------------------
(* Tire contact patch.  The repository holds two versions of               *)
(* calculateContactPatch: "ASPECT_RATIO" (tirePatchCalculations.ts), whose *)
(* fourth parameter is the width/length ratio of the patch, and            *)
(* "TIRE_WIDTH", whose fourth parameter is the tire width.  The 3-axle     *)
(* engine passes the tire width as fourth argument.                        *)

\* tirePatchCalculations.ts: length = sqrt(area / aspectRatio) and
\* width = area / length = sqrt(area * aspectRatio); the square root of a
\* negative number is NaN
calculateContactPatch_AspectRatio(axleLoad_lb, tirePressure_psi, tiresPerAxle, aspectRatio) ==
  IF axleLoad_lb.n <= 0 \/ tirePressure_psi.n <= 0 \/ tiresPerAxle.n <= 0
  THEN Thrown("Invalid input values for contact patch calculation")
  ELSE LET loadPerTire_lb == RDiv(axleLoad_lb, tiresPerAxle)
           contactArea_in2 == RDiv(loadPerTire_lb, tirePressure_psi)
       IN  Returned(
             [contactLength_in |-> Sqrt(RDiv(contactArea_in2, aspectRatio)),
              contactWidth_in |-> Sqrt(RMul(contactArea_in2, aspectRatio)),
              contactArea_in2 |-> contactArea_in2])

\* the version with a tire width: length = area / width
calculateContactPatch_TireWidth(axleLoad_lb, tirePressure_psi, tiresPerAxle, tireWidth_in) ==
  IF axleLoad_lb.n <= 0 \/ tirePressure_psi.n <= 0 \/ tiresPerAxle.n <= 0 \/ tireWidth_in.n <= 0
  THEN Thrown("Invalid input values for contact patch calculation")
  ELSE LET loadPerTire_lb == RDiv(axleLoad_lb, tiresPerAxle)
           contactArea_in2 == RDiv(loadPerTire_lb, tirePressure_psi)
       IN  Returned([contactLength_in |-> Lin(RDiv(contactArea_in2, tireWidth_in)),
                     contactWidth_in |-> Lin(tireWidth_in),
                     contactArea_in2 |-> contactArea_in2])

calculateContactPatch(version, axleLoad_lb, tirePressure_psi, tiresPerAxle, fourth) ==
  IF version = "ASPECT_RATIO"
  THEN calculateContactPatch_AspectRatio(axleLoad_lb, tirePressure_psi, tiresPerAxle, fourth)
  ELSE calculateContactPatch_TireWidth(axleLoad_lb, tirePressure_psi, tiresPerAxle, fourth)

\* vba3AxleEngine.ts, AUTO mode of one axle (EN units): the tire length the
\* footprint of the axle is generated with
AxleTireLength(version, contactPatchMode, axle) ==
  IF contactPatchMode = "AUTO" /\ Truthy(axle.tirePressure) /\ Truthy(axle.tiresPerAxle)
  THEN LET patch == calculateContactPatch(version, axle.load_lb, axle.tirePressure[1],
                                          axle.tiresPerAxle[1], axle.tireWidth_in)
       IN  IF patch.ok THEN Returned(patch.value.contactLength_in) ELSE patch
  ELSE Returned(Lin(axle.tireLength_in))

----------------------------------------------------------------------------
(* Footprints: point loads [x, y, load_lb], coordinates in inches          *)

\* Math.floor of a finite rational
Floor(r) == r.n \div r.d

\* Math.ceil of a rational
Ceil(r) == -((-r.n) \div r.d)

\* boussinesqHelpers.ts generateRectangularGrid; width_in is a rational,
\* length_in a rational or a square root.  A coordinate is
\* start + (k + 0.5) * (length / n) with start = center - length / 2, which
\* for a single cell is the center whatever the length.
generateRectangularGrid(centerX, centerY, width_in, length_in, totalLoad_lb, gridSpacing_in) ==
  LET IntMax(a, b) == IF a >= b THEN a ELSE b
      CeilDiv(length) ==
        IF length.rad
        THEN LET q == RDiv(length.q, RMul(gridSpacing_in, gridSpacing_in))
             IN  CHOOSE n \in 0..(Ceil(q) + 1) :
                   /\ RLe(q, R(n * n))
                   /\ \A k \in 0..(n - 1) : ~RLe(q, R(k * k))
        ELSE Ceil(RDiv(length.q, gridSpacing_in))
      Coordinate(center, length, n, k) ==
        CASE n = 1 -> center
          [] n > 1 /\ ~length.rad ->
               RAdd(RSub(center, RDiv(length.q, R(2))),
                    RMul(RFrac(2 * k + 1, 2), RDiv(length.q, R(n))))
      nW == IntMax(1, CeilDiv(Lin(width_in)))
      nL == IntMax(1, CeilDiv(length_in))
      pointLoad_lb == RDiv(totalLoad_lb, R(nW * nL))
  IN  [p \in 1..(nW * nL) |->
        [x |-> Coordinate(centerX, Lin(width_in), nW, (p - 1) \div nL),
         y |-> Coordinate(centerY, length_in, nL, (p - 1) % nL),
         load_lb |-> pointLoad_lb]]

\* vba3AxleEngine.ts calculate3AxleVehicleVBA, EN units: the tire lengths
\* and the point loads of the three axles
Footprint3Axle(req) ==
  LET length(k) == AxleTireLength(req.version, req.contactPatchMode, req.axles[k])
      half == RDiv(RMul(RAdd(req.axle1To2Spacing_ft, req.axle2To3Spacing_ft), R(12)), R(2))
      axle_Y == <<RNeg(half),
                  RDiv(RMul(RSub(req.axle2To3Spacing_ft, req.axle1To2Spacing_ft), R(12)), R(2)),
                  half>>
      axleLoads(k) ==
        generateRectangularGrid(RMul(req.laneOffset_ft, R(12)), axle_Y[k],
                                RMul(req.axles[k].tireWidth_in, R(2)), length(k).value,
                                req.axles[k].load_lb, R(6))
  IN  IF \E k \in 1..3 : ~length(k).ok
      THEN length(CHOOSE k \in 1..3 : ~length(k).ok /\ \A j \in 1..(k - 1) : length(j).ok)
      ELSE Returned([tireLength_in |-> [k \in 1..3 |-> length(k).value],
                     axle_Y |-> axle_Y,
                     axleLoads |-> <<axleLoads(1), axleLoads(2), axleLoads(3)>>,
                     pointLoads |-> axleLoads(1) \o axleLoads(2) \o axleLoads(3)])

\* vba2AxleEngine calculate2AxleVehicleVBA, EN units: the point loads of the
\* two axles
Footprint2Axle(req) ==
  LET axle_Y == <<RNeg(RDiv(RMul(req.axleSpacing_ft, R(12)), R(2))),
                  RDiv(RMul(req.axleSpacing_ft, R(12)), R(2))>>
      axleLoads(k) ==
        generateRectangularGrid(RMul(req.laneOffset_ft, R(12)), axle_Y[k],
                                RMul(req.tireWidth_in, R(2)), Lin(req.tireLength_in),
                                req.axleLoad_lb[k], R(6))
  IN  Returned([axle_Y |-> axle_Y,
                axleLoads |-> <<axleLoads(1), axleLoads(2)>>,
                pointLoads |-> axleLoads(1) \o axleLoads(2)])

\* vbaTrackEngine.ts calculateBoussinesq, up to the two loops: the grid
\* points the loops visit on each track and the load of each
TrackFootprint(req) ==
  LET axleLoad_lb == RDiv(req.vehicleWeight_lb, R(2))
      trackLength_in == RMul(req.trackLength_ft, R(12))
      nW == Ceil(RDiv(req.trackWidth_in, R(6)))
      nL == Ceil(RDiv(trackLength_in, R(6)))
      pointLoad_lb == RDiv(axleLoad_lb, R(nW * nL))
      Track_X == <<RDiv(RMul(req.trackSeparation_ft, R(12)), R(2)),
                   RNeg(RDiv(RMul(req.trackSeparation_ft, R(12)), R(2)))>>
      Track_Y_start == RNeg(RDiv(trackLength_in, R(2)))
      points(k) ==
        [p \in 1..(IF nW > 0 /\ nL > 0 THEN nW * nL ELSE 0) |->
           [x |-> RSub(RAdd(Track_X[k], R(((p - 1) \div nL) * 6)),
                       RDiv(req.trackWidth_in, R(2))),
            y |-> RAdd(Track_Y_start, R(((p - 1) % nL) * 6)),
            load_lb |-> pointLoad_lb]]
  IN  [axleLoad_lb |-> axleLoad_lb, pointLoad_lb |-> pointLoad_lb, nW |-> nW, nL |-> nL,
       tracks |-> <<points(1), points(2)>>]

----------------------------------------------------------------------------
(* Boussinesq sum and impact factor.  Pressures of the surface stage are   *)
(* in units of 3 / (2 pi) psi, the common factor of every contribution.    *)

\* Math.pow(u, 2.5) for u the square of a rational, which is what the
\* geometries of the requests give
Pow25(u) ==
  LET root(m) == CHOOSE k \in 0..m : k * k = m
  IN  RPowInt(RFrac(root(u.n), root(u.d)), 5)

\* boussinesqHelpers.ts generateStandardMeasurementPoints
generateStandardMeasurementPoints(loadCenterX_in, loadCenterY_in) ==
  <<[x |-> loadCenterX_in, y |-> loadCenterY_in, label |-> "Under load center"],
    [x |-> R(0), y |-> R(0), label |-> "At pipe centerline"]>>

\* the maximum of a non-empty array with the last index holding it
MaxOfLast(values) ==
  LET maxIndex == CHOOSE k \in 1..Len(values) :
                    /\ \A j \in 1..Len(values) : RLe(values[j], values[k])
                    /\ \A j \in (k + 1)..Len(values) : values[j] # values[k]
  IN  [max |-> values[maxIndex], index |-> maxIndex]

\* Math.max(...values) and values.indexOf(max) of a non-empty array
MaxOf(values) ==
  LET maxIndex == CHOOSE k \in 1..Len(values) :
                    /\ \A j \in 1..Len(values) : RLe(values[j], values[k])
                    /\ \A j \in 1..(k - 1) : values[j] # values[k]
  IN  [max |-> values[maxIndex], index |-> maxIndex]

\* boussinesqHelpers.ts calculateBoussinesqFromPoints.  At H = 0 every
\* contribution is NaN, indexOf(NaN) is -1 and reading the label throws.
calculateBoussinesqFromPoints(pointLoads, measurementPoints, H_ft) ==
  LET H_in == RMul(H_ft, R(12))
      contrib(mp, pl) ==
        LET dx == RSub(mp.x, pl.x)
            dy == RSub(mp.y, pl.y)
            R2 == RAdd(RMul(dx, dx), RMul(dy, dy))
        IN  RDiv(pl.load_lb,
                 RMul(RMul(H_in, H_in),
                      Pow25(RAdd(R(1), RDiv(R2, RMul(H_in, H_in))))))
      sum[k \in 0..Len(pointLoads), m \in 1..Len(measurementPoints)] ==
        IF k = 0 THEN R(0)
        ELSE RAdd(sum[k - 1, m], contrib(measurementPoints[m], pointLoads[k]))
      pressures == [m \in 1..Len(measurementPoints) |-> sum[Len(pointLoads), m]]
  IN  IF H_in = R(0) /\ pointLoads # <<>>
      THEN Thrown("TypeError: cannot read properties of undefined (reading 'label')")
      ELSE Returned([pressures_psi |-> pressures,
                     maxPressure_psi |-> MaxOf(pressures).max,
                     maxLocation |-> measurementPoints[MaxOf(pressures).index].label])

\* vbaTrackEngine.ts calculateBoussinesq, from the two sums on: the maximum
\* and its location
TrackGoverning(bsnqSUM1, bsnqSUM2) ==
  [bsnqMax_psi |-> RMax(bsnqSUM1, bsnqSUM2),
   bsnqSUM1_psi |-> bsnqSUM1, bsnqSUM2_psi |-> bsnqSUM2,
   location |-> IF RLe(bsnqSUM2, bsnqSUM1)
                THEN "Under the tracks (at track edge)"
                ELSE "Between tracks (at centerline)"]

\* the depth adjustment without its floor of 1.0
calculateImpactFactor_NoFloor(vehicleClass, pavementType, H_ft) ==
  LET IF0 == CASE vehicleClass = "HIGHWAY" ->
                    IF pavementType = "RIGID" THEN R(1) ELSE RFrac(3, 2)
               [] vehicleClass = "FARM" -> RFrac(5, 4)
               [] OTHER -> RFrac(3, 2)
      H_in == RMul(H_ft, R(12))
  IN  [impactFactor |-> IF0,
       impactFactorDepth |->
         IF RLt(R(60), H_in)
         THEN RSub(IF0, RMul(RFrac(25, 10000), RSub(H_in, R(60))))
         ELSE IF0]

\* sharedCalculations calculateImpactFactor
calculateImpactFactor(vehicleClass, pavementType, H_ft) ==
  LET IF0 == CASE vehicleClass = "HIGHWAY" ->
                    IF pavementType = "RIGID" THEN R(1) ELSE RFrac(3, 2)
               [] vehicleClass = "FARM" -> RFrac(5, 4)
               [] vehicleClass = "TRACK" -> RFrac(3, 2)
               [] OTHER -> R(1)
      H_in == RMul(H_ft, R(12))
  IN  [impactFactor |-> IF0,
       impactFactorDepth |->
         IF RLt(R(60), H_in)
         THEN RMax(R(1), RSub(IF0, RMul(RFrac(25, 10000), RSub(H_in, R(60)))))
         ELSE IF0]

\* vbaTrackEngine.ts calculateImpactFactor: any class but HIGHWAY and FARM
\* is a tracked vehicle
calculateImpactFactor_Track(vehicleClass, pavementType, H_ft) ==
  calculateImpactFactor(IF vehicleClass \in {"HIGHWAY", "FARM"} THEN vehicleClass ELSE "TRACK",
                        pavementType, H_ft)

\* The live load on the pipe from the governing Boussinesq maximum: the
\* depth-adjusted impact factor, the live pressure BsnqIF handed to
\* calculateHoopStress, and Wsurf of calculateLongitudinalLiveStress divided
\* by pi.  The Track engine hands bsnqMax_psi to calculateLongitudinalLiveStress,
\* the axle and grid engines hand BsnqIF; both multiply by the impact factor
\* inside.
LiveLoad(req) ==
  LET impactFactorDepth ==
        IF req.engine = "TRACK"
        THEN calculateImpactFactor_Track(req.vehicleClass, req.pavementType,
                                         req.H_ft).impactFactorDepth
        ELSE calculateImpactFactor(req.vehicleClass, req.pavementType,
                                   req.H_ft).impactFactorDepth
      BsnqIF == RMul(req.maxPressure_psi, impactFactorDepth)
      H_in == RMul(req.H_ft, R(12))
      Plive_psi == IF req.engine = "TRACK" THEN req.maxPressure_psi ELSE BsnqIF
  IN  [impactFactorDepth |-> impactFactorDepth, BsnqIF |-> BsnqIF,
       Wsurf |-> RMul(RDiv(RMul(RMul(Plive_psi, R(2)), RMul(H_in, H_in)), R(3)),
                      impactFactorDepth)]

\* the loop of the shared implementation without the cap of 500
BendingLoop_Uncapped(engine, Lload) ==
  LET range == RMul(R(100), Lload)
  IN  IF engine = "TRACK"
      THEN [first |-> RNeg(range), last |-> range, step |-> RMax(R(1), RDiv(Lload, R(50)))]
      ELSE [first |-> R(0), last |-> IF range.d = 0 THEN range ELSE R(Floor(range)),
            step |-> R(1)]

\* calculateLongitudinalLiveStress, header of the bending moment loop for a
\* load length Lload: first value, last value and increment of the loop
\* variable.  Shared: for (i = 0; i <= maxIterations; i++) with
\* maxIterations = Math.min(500, Math.floor(100 * Lload)).  Track:
\* for (x = -maxRange; x <= maxRange; x += stepSize) with maxRange =
\* 100 * Lload and stepSize = Math.max(1, Lload / 50).
BendingLoop(engine, Lload) ==
  LET range == RMul(R(100), Lload)
  IN  IF engine = "TRACK"
      THEN [first |-> RNeg(range), last |-> range, step |-> RMax(R(1), RDiv(Lload, R(50)))]
      ELSE [first |-> R(0),
            last |-> RMin(R(500), IF range.d = 0 THEN range ELSE R(Floor(range))),
            step |-> R(1)]

\* vbaGridEngine.ts calculateGridLoadVBA, EN units: total load, point
\* loads, Boussinesq maximum and the live pressure BsnqIF
SurfaceGrid(req) ==
  LET totalLoad_lb ==
        CASE req.loadType = "TOTAL_LOAD" /\ Truthy(req.totalLoad) -> req.totalLoad
          [] req.loadType = "UNIFORM_PRESSURE" /\ Truthy(req.uniformPressure) ->
               Some(RMul(RMul(req.uniformPressure[1],
                              RMul(req.gridLength_ft, req.gridWidth_ft)), R(144)))
          [] OTHER -> Undefined
      gridLength_in == RMul(req.gridLength_ft, R(12))
      gridWidth_in == RMul(req.gridWidth_ft, R(12))
      gridOffsetX_in == RMul(req.gridOffsetX_ft, R(12))
      gridOffsetY_in == RMul(req.gridOffsetY_ft, R(12))
      nX == req.gridDivisionsX
      nY == req.gridDivisionsY
      startX == RSub(gridOffsetX_in, RDiv(gridWidth_in, R(2)))
      startY == RSub(gridOffsetY_in, RDiv(gridLength_in, R(2)))
      pointLoads ==
        [p \in 1..(IF nX > 0 /\ nY > 0 THEN nX * nY ELSE 0) |->
           [x |-> RAdd(startX, RMul(RFrac(2 * ((p - 1) \div nY) + 1, 2),
                                    RDiv(gridWidth_in, R(nX)))),
            y |-> RAdd(startY, RMul(RFrac(2 * ((p - 1) % nY) + 1, 2),
                                    RDiv(gridLength_in, R(nY)))),
            load_lb |-> RDiv(totalLoad_lb[1], R(nX * nY))]]
      boussinesq ==
        calculateBoussinesqFromPoints(
          pointLoads, generateStandardMeasurementPoints(gridOffsetX_in, gridOffsetY_in),
          req.H_ft)
      impactResult == calculateImpactFactor(req.vehicleClass, req.pavementType, req.H_ft)
  IN  IF totalLoad_lb = Undefined THEN Thrown("Invalid load type or missing load value")
      ELSE IF ~boussinesq.ok THEN boussinesq
      ELSE Returned([totalLoad_lb |-> totalLoad_lb[1], pointLoads |-> pointLoads,
                     pressures_psi |-> boussinesq.value.pressures_psi,
                     maxPressure_psi |-> boussinesq.value.maxPressure_psi,
                     maxLocation |-> boussinesq.value.maxLocation,
                     impactFactorDepth |-> impactResult.impactFactorDepth,
                     BsnqIF |-> RMul(boussinesq.value.maxPressure_psi,
                                     impactResult.impactFactorDepth)])

----------------------------------------------------------------------------
(* Load cases                                                              *)

MaxDeltaT == 12
MaxConvHalves == 8
MaxDepth_ft == 25

\* Stage outputs for hoop stress hoopSoil / hoopLive and longitudinal live
\* stress longLive at zero pressure; internal pressure stiffens the pipe,
\* so at MOP > 0 the pressure-dependent stage outputs are smaller.
Stage(hoopSoil, hoopLive, longLive, MOP_psi) ==
  LET g == IF MOP_psi = R(0) THEN R(1) ELSE RFrac(1, 2)
  IN  [bsnqMax_psi |-> R(4), bsnqIF_psi |-> R(5),
       hoopSoil_Zero |-> hoopSoil, hoopLive_Zero |-> hoopLive,
       longLive_Zero |-> longLive,
       hoopSoil_MOP |-> RMul(g, hoopSoil), hoopLive_MOP |-> RMul(g, hoopLive),
       longLive_MOP |-> RMul(g, longLive)]

BaseCase ==
  [unitsSystem |-> "EN", codeCheck |-> "B31_4", userDefinedLimits |-> Undefined,
   equivStressMethod |-> "TRESCA", SMYS_psi |-> R(2600), deltaT_F |-> R(0),
   MOP_psi |-> R(65), D_in |-> R(20), t_in |-> R(1),
   beddingAngleDeg |-> 90,
   ePrimeMethod |-> "LOOKUP", ePrimeUserDefined |-> Undefined,
   soilType |-> Some("COARSE_WITH_FINES"), compaction |-> Some(R(90)),
   soilLoadMethod |-> "PRISM", rho_lbft3 |-> R(120), H_ft |-> R(4),
   frictionAngleDeg |-> 30, soilCohesion_psi |-> R(0),
   stage |-> Stage(R(650), R(520), R(195), R(65))]

CodeChecks == {"B31_4", "B31_8", "CSA_Z662", "USER_DEFINED"}
EquivStressMethods == {"TRESCA", "VON_MISES"}
UnitsSystems == {"EN", "SI"}

DeltaTs == {R(-MaxDeltaT), R(-2), R(0), R(MaxDeltaT)}

\* stress states around the 90 % limit of SMYS 2600
StressCases ==
  {[BaseCase EXCEPT !.codeCheck = code, !.equivStressMethod = method,
                    !.SMYS_psi = SMYS, !.deltaT_F = deltaT, !.MOP_psi = MOP,
                    !.stage = Stage(hoopSoil, hoopLive, longLive, MOP)] :
     code \in {"B31_4", "B31_8"}, method \in EquivStressMethods,
     SMYS \in {R(2600)}, deltaT \in DeltaTs, MOP \in {R(0), R(65)},
     hoopSoil \in {R(0), R(1300)},
     hoopLive \in {R(65), R(1040)},
     longLive \in {R(65), R(195)}}

\* thermal compression with little soil and live load: only the sustained
\* longitudinal value exceeds the allowable
SustainedCases ==
  {[BaseCase EXCEPT !.codeCheck = code, !.equivStressMethod = method,
                    !.unitsSystem = units,
                    !.SMYS_psi = R(449), !.deltaT_F = R(-2), !.MOP_psi = R(0),
                    !.stage = Stage(R(50), R(1), longLive, R(0))] :
     code \in CodeChecks, method \in EquivStressMethods, units \in UnitsSystems,
     longLive \in {R(1), R(30)}}

UserLimits(hoop, long, equiv) ==
  Some([hoopLimitPct |-> R(hoop), longLimitPct |-> R(long),
        equivLimitPct |-> R(equiv)])

UserLimitCases ==
  {[BaseCase EXCEPT !.codeCheck = "USER_DEFINED", !.userDefinedLimits = limits,
                    !.equivStressMethod = method, !.deltaT_F = deltaT,
                    !.stage = Stage(hoopSoil, R(520), R(195), R(65))] :
     limits \in {Undefined, UserLimits(45, 45, 45), UserLimits(90, 45, 90),
                 UserLimits(25, 90, 50), UserLimits(72, 72, 72)},
     method \in EquivStressMethods, deltaT \in DeltaTs,
     hoopSoil \in {R(650), R(1300)}}

EPrimeCase(units, method, userDefined, soilType, compaction, H_ft) ==
  [BaseCase EXCEPT !.unitsSystem = units, !.ePrimeMethod = method,
                   !.ePrimeUserDefined = userDefined, !.soilType = soilType,
                   !.compaction = compaction, !.H_ft = H_ft]

EPrimeCases ==
  {EPrimeCase(units, "LOOKUP", Undefined, soilType, compaction, H_ft) :
     units \in UnitsSystems,
     soilType \in {Undefined, Some("FINE"), Some("COARSE_WITH_FINES"),
                   Some("COARSE_NO_FINES")},
     compaction \in {Undefined, Some(R(80)), Some(R(85)), Some(R(90)),
                     Some(R(95)), Some(R(100))},
     H_ft \in {R(4), R(6)}}
  \cup
  {EPrimeCase(units, "USER_DEFINED", userDefined, soilType, compaction, H_ft) :
     units \in UnitsSystems,
     userDefined \in {Undefined, Some(R(0)), Some(R(1500))},
     soilType \in {Some("FINE"), Some("COARSE_WITH_FINES")},
     compaction \in {Some(R(90)), Some(R(100))},
     H_ft \in {R(4), R(6)}}

SoilLoadCases ==
  {[BaseCase EXCEPT !.unitsSystem = units, !.soilLoadMethod = method,
                    !.rho_lbft3 = rho, !.H_ft = H_ft, !.D_in = D_in,
                    !.frictionAngleDeg = phi, !.soilCohesion_psi = cohesion] :
     units \in UnitsSystems, method \in {"PRISM", "TRAP_DOOR"},
     rho \in {R(120)}, H_ft \in {R(4), R(5), R(6)},
     D_in \in {R(20), R(24)}, phi \in {20, 30}, cohesion \in {R(0), R(1)}}

BeddingCases ==
  {[BaseCase EXCEPT !.unitsSystem = units, !.beddingAngleDeg = angle] :
     units \in UnitsSystems,
     angle \in {0, 30, 45, 60, 90, 100, 120, 150, 180}}

\* degenerate pipe data: SMYS 0, and wall thickness 0, for which D / t is
\* infinite and the hoop and longitudinal stage outputs, quotients of
\* infinities, are NaN
DegenerateCases ==
  {[BaseCase EXCEPT !.codeCheck = code, !.equivStressMethod = method, !.MOP_psi = MOP,
                    !.SMYS_psi = R(0), !.stage = Stage(R(650), R(520), R(195), MOP)] :
     code \in {"B31_4", "B31_8"}, method \in EquivStressMethods, MOP \in {R(0), R(65)}}
  \cup {[BaseCase EXCEPT !.codeCheck = code, !.equivStressMethod = method, !.MOP_psi = MOP,
                         !.t_in = R(0),
                         !.stage = Stage(RFrac(0, 0), RFrac(0, 0), RFrac(0, 0), MOP)] :
          code \in {"B31_4", "B31_8"}, method \in EquivStressMethods, MOP \in {R(0), R(65)}}

LoadCases == StressCases \cup SustainedCases \cup UserLimitCases
             \cup EPrimeCases \cup SoilLoadCases \cup BeddingCases
             \cup DegenerateCases

NoLoadCase == [unitsSystem |-> "NONE"]

Modes == {"PIPELINE_TRACK", "2_AXLE", "3_AXLE", "GRID"}

----------------------------------------------------------------------------
(* Conversion requests                                                     *)

Versions == {"M_KN", "MM_KG"}

ConvValues == {RFrac(k, 2) : k \in -MaxConvHalves..MaxConvHalves}

ConvRequests ==
  {[version |-> version, value |-> value, system |-> system,
    conversionType |-> type, en |-> Undefined, out |-> Undefined] :
     version \in Versions, value \in ConvValues, system \in UnitsSystems,
     type \in ConversionTypes("MM_KG")}

NoConversion == [version |-> "NONE"]

----------------------------------------------------------------------------
(* Requests to the surface stage                                           *)

NoSurface == [kind |-> "NONE"]

SurfaceRequest(kind, req) == [kind |-> kind, req |-> req, out |-> Undefined]

PatchRequests ==
  {SurfaceRequest("PATCH", [version |-> version, axleLoad_lb |-> R(load),
                            tirePressure_psi |-> R(pressure),
                            tiresPerAxle |-> R(tires), fourth |-> R(fourth)]) :
     version \in {"ASPECT_RATIO", "TIRE_WIDTH"}, load \in {0, 9000, 12000},
     pressure \in {0, 80, 100}, tires \in {0, 2, 4}, fourth \in {-1, 0, 8, 10}}

Axle(load, width, length, pressure, tires) ==
  [load_lb |-> R(load), tireWidth_in |-> R(width), tireLength_in |-> R(length),
   tirePressure |-> pressure, tiresPerAxle |-> tires]

\* 3-axle requests; with the ASPECT_RATIO version every tire width is positive
AxleRequests ==
  LET StandardAxle == Axle(12000, 8, 10, Some(R(80)), Some(R(2)))
      LightAxle == Axle(9000, 10, 4, Some(R(100)), Some(R(4)))
      WideAxles ==
        {StandardAxle, LightAxle,
         Axle(12000, 8, 10, Undefined, Some(R(2))),
         Axle(12000, 8, 10, Some(R(80)), Undefined),
         Axle(12000, 8, 10, Some(R(0)), Some(R(2))),
         Axle(12000, 8, 0, Some(R(80)), Some(R(2))),
         Axle(0, 8, 10, Some(R(80)), Some(R(2))),
         Axle(-100, 8, 10, Some(R(80)), Some(R(2)))}
      AxleRequest(version, mode, axle1, axle2, lane) ==
        SurfaceRequest("AXLES", [version |-> version, contactPatchMode |-> mode,
                                 axles |-> <<axle1, axle2, StandardAxle>>,
                                 axle1To2Spacing_ft |-> R(12),
                                 axle2To3Spacing_ft |-> R(4),
                                 laneOffset_ft |-> R(lane)])
  IN  {AxleRequest(version, mode, axle1, axle2, lane) :
         version \in {"ASPECT_RATIO", "TIRE_WIDTH"}, mode \in {"MANUAL", "AUTO"},
         axle1 \in WideAxles, axle2 \in {StandardAxle, LightAxle}, lane \in {0, 3}}
      \cup {AxleRequest("TIRE_WIDTH", mode, Axle(12000, width, 10, Some(R(80)), Some(R(2))),
                        StandardAxle, lane) :
              mode \in {"MANUAL", "AUTO"}, width \in {-2, 0}, lane \in {0, 3}}

\* Grid requests.  A grid of one cell puts its load at the grid center, a
\* grid of two cells across 8 ft puts them 24 in either side of it; the
\* depths of cover make every distance to a measurement point the leg of a
\* right triangle with integer sides.
GridRequests ==
  LET Loads == {[loadType |-> "TOTAL_LOAD", totalLoad |-> Some(R(10000))],
                [loadType |-> "TOTAL_LOAD", totalLoad |-> Some(R(0))],
                [loadType |-> "TOTAL_LOAD", totalLoad |-> Some(R(-1000))],
                [loadType |-> "TOTAL_LOAD", totalLoad |-> Undefined],
                [loadType |-> "UNIFORM_PRESSURE", totalLoad |-> Some(R(10000))],
                [loadType |-> "UNIFORM_PRESSURE", totalLoad |-> Undefined]}
      GridRequest(load, width, length, offsetX, nX, H_in) ==
        SurfaceRequest("GRID",
          [loadType |-> load.loadType, totalLoad |-> load.totalLoad,
           uniformPressure |-> IF load.totalLoad = Undefined THEN Some(R(5)) ELSE Undefined,
           gridLength_ft |-> R(length), gridWidth_ft |-> R(width),
           gridOffsetX_ft |-> R(offsetX), gridOffsetY_ft |-> R(0),
           gridDivisionsX |-> nX, gridDivisionsY |-> 1,
           vehicleClass |-> "HIGHWAY", pavementType |-> "FLEXIBLE",
           H_ft |-> RFrac(H_in, 12)])
  IN  {GridRequest(load, width, length, offsetX, 1, H_in) :
         load \in Loads, width \in {-1, 0, 2}, length \in {0, 2}, offsetX \in {0, 1},
         H_in \in {5, 9, 16}}
      \cup {GridRequest(load, 8, 2, 0, nX, H_in) :
              load \in Loads, nX \in {0, 2}, H_in \in {7, 10, 18, 32}}

ImpactRequests ==
  {SurfaceRequest("IMPACT", [engine |-> engine, vehicleClass |-> vehicleClass,
                             pavementType |-> pavementType, H_ft |-> R(H)]) :
     engine \in {"TRACK", "SHARED"}, vehicleClass \in {"HIGHWAY", "FARM", "TRACK"},
     pavementType \in {"RIGID", "FLEXIBLE"}, H \in 1..MaxDepth_ft}

TrackSumRequests ==
  {SurfaceRequest("TRACK_SUMS", [bsnqSUM1 |-> RFrac(a, 4), bsnqSUM2 |-> RFrac(b, 4)]) :
     a \in 0..5, b \in 0..5}

\* configurations handed to the dispatcher: the four type tags and one the
\* dispatcher does not know
DispatchRequests ==
  {SurfaceRequest("DISPATCH", [type |-> type, inputs |-> i]) :
     type \in {"TRACK", "2_AXLE", "3_AXLE", "GRID", "4_AXLE"}, i \in UserLimitCases}

\* compactions from 77.5 to 102.5 in steps of one half
CoefficientRequests ==
  {SurfaceRequest("COEFFICIENTS", [soilType |-> soilType, compaction |-> RFrac(k, 2)]) :
     soilType \in {"FINE", "COARSE_WITH_FINES", "COARSE_NO_FINES"}, k \in 155..205}

\* 2-axle and Track footprint requests
FootprintRequests ==
  {SurfaceRequest("AXLES2", [axleSpacing_ft |-> R(spacing), laneOffset_ft |-> R(lane),
                             tireWidth_in |-> R(width), tireLength_in |-> R(length),
                             axleLoad_lb |-> <<R(12000), R(load2)>>]) :
     spacing \in {4, 12}, lane \in {0, 3}, width \in {3, 8, 10}, length \in {4, 10, 13},
     load2 \in {9000, 12000}}
  \cup {SurfaceRequest("TRACKS", [vehicleWeight_lb |-> R(weight),
                                  trackSeparation_ft |-> R(separation),
                                  trackLength_ft |-> RFrac(length, 2),
                                  trackWidth_in |-> R(width)]) :
          weight \in {40000, 50000}, separation \in {3, 6}, length \in {1, 2, 3},
          width \in {0, 4, 6, 9, 18}}

LiveRequests ==
  {SurfaceRequest("LIVE", [engine |-> engine, maxPressure_psi |-> R(maxPressure),
                           vehicleClass |-> vehicleClass, pavementType |-> pavementType,
                           H_ft |-> R(H)]) :
     engine \in {"TRACK", "2_AXLE", "3_AXLE", "GRID"}, maxPressure \in {2, 4},
     vehicleClass \in {"HIGHWAY", "FARM", "TRACK"}, pavementType \in {"RIGID", "FLEXIBLE"},
     H \in {3, 5, 8, 24}}

\* load lengths of the bending moment loop, the degenerate ones included;
\* at is the loop variable and samples the number of moments evaluated
BendingRequests ==
  {[kind |-> "BENDING", req |-> [engine |-> engine, Lload |-> Lload], out |-> Undefined,
    at |-> Undefined, samples |-> 0] :
     engine \in {"TRACK", "SHARED"},
     Lload \in {RFrac(0, 0), RFrac(1, 0), R(-1), R(0), RFrac(1, 2), R(3), R(50), R(1000)}}

SurfaceRequests == PatchRequests \cup AxleRequests \cup GridRequests \cup ImpactRequests
                   \cup TrackSumRequests \cup DispatchRequests

\* the requests of the stages between the footprint and the pipe stresses
LoadStageRequests == AxleRequests \cup CoefficientRequests \cup FootprintRequests
                     \cup LiveRequests \cup BendingRequests

----------------------------------------------------------------------------
(* State machine: a session either analyses one load case with any of the  *)
(* engines, or converts one scalar to the canonical system and back.       *)

Init ==
  /\ results = [m \in Modes |-> Undefined]
  /\ surface = NoSurface
  /\ \/ inputs \in LoadCases /\ conv = NoConversion
     \/ inputs = NoLoadCase /\ conv \in {r \in ConvRequests :
                                  r.conversionType \in ConversionTypes(r.version)}

CalculateTrack ==
  /\ inputs # NoLoadCase
  /\ results["PIPELINE_TRACK"] = Undefined
  /\ results' = [results EXCEPT !["PIPELINE_TRACK"] = Some(calculateTrackVehicleVBA(inputs))]
  /\ UNCHANGED <<inputs, conv, surface>>

Calculate2Axle ==
  /\ inputs # NoLoadCase
  /\ results["2_AXLE"] = Undefined
  /\ results' = [results EXCEPT !["2_AXLE"] = Some(calculate2AxleVehicleVBA(inputs))]
  /\ UNCHANGED <<inputs, conv, surface>>

Calculate3Axle ==
  /\ inputs # NoLoadCase
  /\ results["3_AXLE"] = Undefined
  /\ results' = [results EXCEPT !["3_AXLE"] = Some(calculate3AxleVehicleVBA(inputs))]
  /\ UNCHANGED <<inputs, conv, surface>>

CalculateGrid ==
  /\ inputs # NoLoadCase
  /\ results["GRID"] = Undefined
  /\ results' = [results EXCEPT !["GRID"] = Some(calculateGridLoadVBA(inputs))]
  /\ UNCHANGED <<inputs, conv, surface>>

ConvertInputsToEN ==
  /\ conv # NoConversion
  /\ conv.en = Undefined
  /\ conv' = [conv EXCEPT !.en = Some(convertInputsToEN(
                conv.version, conv.value, conv.system, conv.conversionType))]
  /\ UNCHANGED <<inputs, results, surface>>

ConvertOutputsFromEN ==
  /\ conv # NoConversion
  /\ conv.en # Undefined
  /\ conv.out = Undefined
  /\ conv' = [conv EXCEPT !.out = Some(convertOutputsFromEN(
                conv.version, conv.en[1], conv.system, conv.conversionType))]
  /\ UNCHANGED <<inputs, results, surface>>

Next ==
  \/ CalculateTrack
  \/ Calculate2Axle
  \/ Calculate3Axle
  \/ CalculateGrid
  \/ ConvertInputsToEN
  \/ ConvertOutputsFromEN

Spec == Init /\ [][Next]_vars

----------------------------------------------------------------------------
(* Surface stage sessions: one request, answered once; the answer of the   *)
(* dispatcher may then be handed to isPassingCalculation                   *)

InitSurface ==
  /\ inputs = NoLoadCase
  /\ results = [m \in Modes |-> Undefined]
  /\ conv = NoConversion
  /\ surface \in SurfaceRequests

CalculateContactPatch ==
  /\ surface.kind = "PATCH" /\ surface.out = Undefined
  /\ surface' = [surface EXCEPT !.out = Some(calculateContactPatch(
                   surface.req.version, surface.req.axleLoad_lb,
                   surface.req.tirePressure_psi, surface.req.tiresPerAxle,
                   surface.req.fourth))]
  /\ UNCHANGED <<inputs, results, conv>>

Generate3AxleFootprint ==
  /\ surface.kind = "AXLES" /\ surface.out = Undefined
  /\ surface' = [surface EXCEPT !.out = Some(Footprint3Axle(surface.req))]
  /\ UNCHANGED <<inputs, results, conv>>

CalculateGridSurface ==
  /\ surface.kind = "GRID" /\ surface.out = Undefined
  /\ surface' = [surface EXCEPT !.out = Some(SurfaceGrid(surface.req))]
  /\ UNCHANGED <<inputs, results, conv>>

CalculateImpactFactor ==
  /\ surface.kind = "IMPACT" /\ surface.out = Undefined
  /\ surface' = [surface EXCEPT !.out = Some(
                   IF surface.req.engine = "TRACK"
                   THEN calculateImpactFactor_Track(surface.req.vehicleClass,
                                                    surface.req.pavementType,
                                                    surface.req.H_ft)
                   ELSE calculateImpactFactor(surface.req.vehicleClass,
                                              surface.req.pavementType,
                                              surface.req.H_ft))]
  /\ UNCHANGED <<inputs, results, conv>>

SelectTrackGoverning ==
  /\ surface.kind = "TRACK_SUMS" /\ surface.out = Undefined
  /\ surface' = [surface EXCEPT !.out = Some(TrackGoverning(surface.req.bsnqSUM1,
                                                            surface.req.bsnqSUM2))]
  /\ UNCHANGED <<inputs, results, conv>>

ComputeSurfaceLoad ==
  /\ surface.kind = "DISPATCH" /\ surface.out = Undefined
  /\ surface' = [surface EXCEPT !.out = Some(computeSurfaceLoad(surface.req))]
  /\ UNCHANGED <<inputs, results, conv>>

\* the caller hands the dispatcher's result to isPassingCalculation
IsPassingCalculation ==
  /\ surface.kind = "DISPATCH" /\ surface.out # Undefined /\ surface.out[1].ok
  /\ surface' = [kind |-> "PASSING", req |-> surface.out[1].value,
                 out |-> Some(isPassingCalculation(surface.out[1].value))]
  /\ UNCHANGED <<inputs, results, conv>>

GetEPrimeCoefficients ==
  /\ surface.kind = "COEFFICIENTS" /\ surface.out = Undefined
  /\ surface' = [surface EXCEPT !.out = Some(getEPrimeCoefficients(
                   surface.req.soilType, surface.req.compaction))]
  /\ UNCHANGED <<inputs, results, conv>>

GenerateFootprint ==
  /\ surface.kind \in {"AXLES2", "TRACKS"} /\ surface.out = Undefined
  /\ surface' = [surface EXCEPT !.out = Some(IF surface.kind = "AXLES2"
                                             THEN Footprint2Axle(surface.req)
                                             ELSE TrackFootprint(surface.req))]
  /\ UNCHANGED <<inputs, results, conv>>

ApplyImpactFactor ==
  /\ surface.kind = "LIVE" /\ surface.out = Undefined
  /\ surface' = [surface EXCEPT !.out = Some(LiveLoad(surface.req))]
  /\ UNCHANGED <<inputs, results, conv>>

\* one evaluation of the loop header: initialisation, or the test followed
\* by either the body and the increment or the exit
SampleBendingMoment ==
  /\ surface.kind = "BENDING" /\ surface.out = Undefined
  /\ LET loop == BendingLoop(surface.req.engine, surface.req.Lload)
     IN  surface' =
           IF surface.at = Undefined THEN [surface EXCEPT !.at = Some(loop.first)]
           ELSE IF RLe(surface.at[1], loop.last)
           THEN [surface EXCEPT !.at = Some(RAdd(surface.at[1], loop.step)),
                                !.samples = surface.samples + 1]
           ELSE [surface EXCEPT !.out = Some([samples |-> surface.samples])]
  /\ UNCHANGED <<inputs, results, conv>>

NextSurface ==
  \/ CalculateContactPatch
  \/ Generate3AxleFootprint
  \/ CalculateGridSurface
  \/ CalculateImpactFactor
  \/ SelectTrackGoverning
  \/ ComputeSurfaceLoad
  \/ IsPassingCalculation

SurfaceSpec == InitSurface /\ [][NextSurface]_vars

\* Sessions of the soil coefficient lookup, the footprints, the live load
\* and the bending moment loop
InitLoadStage ==
  /\ inputs = NoLoadCase
  /\ results = [m \in Modes |-> Undefined]
  /\ conv = NoConversion
  /\ surface \in LoadStageRequests

NextLoadStage ==
  \/ Generate3AxleFootprint
  \/ GetEPrimeCoefficients
  \/ GenerateFootprint
  \/ ApplyImpactFactor
  \/ SampleBendingMoment

LoadStageSpec == InitLoadStage /\ [][NextLoadStage]_vars

----------------------------------------------------------------------------
(* Sensitivity sweep: generateSensitivitySweep is followed pass by pass    *)
(* through its value-generation loop, whose exit is followed by the limit  *)
(* to 200 points, and then scenario by scenario                            *)

\* the list of values is followed up to MaxValues entries; a double leaves
\* the finite range beyond MaxDouble
MaxValues == 450
MaxDouble == 500

\* o ?? default
Nullish(o, default) == IF o = Undefined THEN default ELSE o[1]

Overflow(x) ==
  IF x.d = 0 THEN x
  ELSE IF RLt(R(MaxDouble), x) THEN RFrac(1, 0)
  ELSE IF RLt(x, R(-MaxDouble)) THEN RFrac(-1, 0)
  ELSE x

\* the loop of the chosen mode: its first counter value, its upper end and its
\* increment
SweepLoop(config, baseValue) ==
  IF config.mode = "absolute"
  THEN LET min == Nullish(config.min, RMul(baseValue, RFrac(1, 2)))
           max == Nullish(config.max, RMul(baseValue, RFrac(3, 2)))
       IN  [first |-> min, last |-> max,
            step |-> Nullish(config.step, RDiv(RSub(max, min), R(20)))]
  ELSE LET percentRange == Nullish(config.percentRange, R(20))
       IN  [first |-> RNeg(percentRange), last |-> percentRange,
            step |-> Nullish(config.percentStep, R(5))]

\* the value pushed by a pass of the loop whose counter is at
SweepValue(config, baseValue, at) ==
  IF config.mode = "absolute" THEN at
  ELSE RMul(baseValue, RAdd(R(1), RDiv(at, R(100))))

\* values.filter((_, i) => i % samplingRate === 0) when there are more than
\* 200 values
LimitTo200(values) ==
  LET samplingRate == Ceil(RFrac(Len(values), 200))
      Kept(i) == i % samplingRate = 0
      indices == SelectSeq([k \in 1..Len(values) |-> k - 1], Kept)
  IN  IF Len(values) > 200
      THEN [k \in 1..Len(indices) |-> values[indices[k] + 1]]
      ELSE values

\* runScenario on the front axle load of a three axle vehicle with tire
\* data: the engine's contact patch rejects a load that is not positive; a
\* mode without an engine is rejected for every value.  Of the normalised
\* result the parameter value is kept
runScenario(calcMode, value) ==
  IF calcMode = "3_AXLE"
  THEN IF RLe(value, R(0))
       THEN Thrown("Invalid input values for contact patch calculation")
       ELSE Returned([parameterValue |-> value])
  ELSE Thrown("Unsupported mode for sensitivity")

AbsoluteConfigs ==
  {[mode |-> "absolute", min |-> min, max |-> max, step |-> step,
    percentRange |-> Undefined, percentStep |-> Undefined] :
     min \in {Undefined, Some(R(-2)), Some(R(3))},
     max \in {Undefined, Some(R(3))},
     step \in {Undefined, Some(R(-1)), Some(R(0)), Some(R(1))}}
  \cup {[mode |-> "absolute", min |-> Some(R(3)), max |-> Some(R(-4)),
         step |-> step, percentRange |-> Undefined,
         percentStep |-> Undefined] : step \in {Some(R(-1)), Some(R(1))}}
  \cup {[mode |-> "absolute", min |-> Some(R(0)), max |-> Some(R(200)),
         step |-> Some(RFrac(1, 2)), percentRange |-> Undefined,
         percentStep |-> Undefined]}

PercentageConfigs ==
  {[mode |-> "percentage", min |-> Undefined, max |-> Undefined,
    step |-> Undefined, percentRange |-> percentRange,
    percentStep |-> percentStep] :
     percentRange \in {Undefined, Some(R(-5)), Some(R(150))},
     percentStep \in {Undefined, Some(R(-5)), Some(R(0)), Some(R(1))}}

\* every configuration on an engine that rejects some values, the default
\* ones also on a mode without an engine and on a parameter that the base
\* inputs do not have
SweepCalls ==
  {[calcMode |-> "3_AXLE", baseValue |-> Some(R(10)), config |-> config] :
     config \in AbsoluteConfigs \cup PercentageConfigs}
  \cup {[calcMode |-> calcMode, baseValue |-> baseValue, config |-> config] :
          calcMode \in {"3_AXLE", "SURFACE"},
          baseValue \in {Undefined, Some(R(10))},
          config \in {c \in AbsoluteConfigs \cup PercentageConfigs :
                        /\ c.min = Undefined /\ c.max = Undefined
                        /\ c.step = Undefined /\ c.percentRange = Undefined
                        /\ c.percentStep = Undefined}}

SweepRequests ==
  {[kind |-> "SWEEP", out |-> Undefined, pc |-> "start", at |-> R(0),
    values |-> <<>>, next |-> 1, results |-> <<>>, req |-> req] :
     req \in SweepCalls}

InitSweep ==
  /\ inputs = NoLoadCase
  /\ results = [m \in Modes |-> Undefined]
  /\ conv = NoConversion
  /\ surface \in SweepRequests

\* the lookup of the parameter and the initialisation of the loop
StartSweep ==
  /\ surface.kind = "SWEEP" /\ surface.pc = "start"
  /\ IF surface.req.baseValue = Undefined
     THEN surface' = [surface EXCEPT !.pc = "done",
                        !.out = Some(Thrown("Parameter not found in base inputs"))]
     ELSE \E loop \in {SweepLoop(surface.req.config, surface.req.baseValue[1])} :
            surface' = [surface EXCEPT !.pc = "values", !.at = loop.first]
  /\ UNCHANGED <<inputs, results, conv>>

\* one test of the loop condition, followed by the push and the increment or
\* by the exit and the limit to 200 points
GenerateValue ==
  /\ surface.kind = "SWEEP" /\ surface.pc = "values"
  /\ \E loop \in {SweepLoop(surface.req.config, surface.req.baseValue[1])} :
       IF RLe(surface.at, loop.last)
       THEN \E sum \in {RAdd(surface.at, loop.step)},
               value \in {SweepValue(surface.req.config,
                                     surface.req.baseValue[1], surface.at)} :
              surface' = [surface EXCEPT
                            !.at = Overflow(sum),
                            !.values = IF Len(surface.values) < MaxValues
                                       THEN Append(surface.values, value)
                                       ELSE surface.values]
       ELSE \E limited \in {LimitTo200(surface.values)} :
              surface' = [surface EXCEPT !.pc = "scenarios", !.values = limited]
  /\ UNCHANGED <<inputs, results, conv>>

\* one pass of the loop over the values: the scenario of the next value, its
\* result pushed unless it throws; after the last value the return
RunSweepScenario ==
  /\ surface.kind = "SWEEP" /\ surface.pc = "scenarios"
  /\ IF surface.next > Len(surface.values)
     THEN surface' = [surface EXCEPT !.pc = "done",
                                     !.out = Some(Returned(surface.results))]
     ELSE \E scenario \in {runScenario(surface.req.calcMode,
                                       surface.values[surface.next])} :
            surface' = [surface EXCEPT
                          !.next = surface.next + 1,
                          !.results = IF scenario.ok
                                      THEN Append(surface.results, scenario.value)
                                      ELSE surface.results]
  /\ UNCHANGED <<inputs, results, conv>>

NextSweep ==
  \/ StartSweep
  \/ GenerateValue
  \/ RunSweepScenario

\* a call of the function runs until it returns or throws
SweepSpec == InitSweep /\ [][NextSweep]_vars /\ WF_vars(NextSweep)

----------------------------------------------------------------------------
(* Run storage: the item of localStorage under STORAGE_KEY, and the call   *)
(* that was made last together with the item it found                      *)

\* JavaScript values: null, numbers, run objects and arrays.  A JSON text is
\* valid or not, and a valid one stands for a value
JsonNull == [type |-> "null"]

JsNumber(x) == [type |-> "number", value |-> x]

JsArray(items) == [type |-> "array", items |-> items]

CalculationRun(id, result) == [type |-> "object", id |-> id, result |-> result]

InvalidText == [valid |-> FALSE, value |-> JsonNull]

TextOf(value) == [valid |-> TRUE, value |-> value]

\* JSON.stringify: a number that is not finite is written as null
RECURSIVE Serialized(_)
Serialized(value) ==
  IF value.type = "number"
  THEN IF value.value.d = 0 THEN JsonNull ELSE value
  ELSE IF value.type = "object"
  THEN [value EXCEPT !.result = Serialized(value.result)]
  ELSE IF value.type = "array"
  THEN JsArray([k \in 1..Len(value.items) |-> Serialized(value.items[k])])
  ELSE value

JSON_stringify(value) == TextOf(Serialized(value))

JSON_parse(text) ==
  IF text.valid THEN Returned(text.value) ELSE Thrown("SyntaxError")

\* run.id !== id, which throws on null
IdDiffers(run, id) ==
  IF run.type = "null" THEN Thrown("TypeError")
  ELSE Returned(~(run.type = "object" /\ run.id = id))

getRuns(item) ==
  IF item = Undefined THEN JsArray(<<>>)
  ELSE LET data == JSON_parse(item[1])
       IN  IF data.ok THEN data.value ELSE JsArray(<<>>)

\* the calls give the item they leave and the value they return
saveRun(item, run) ==
  LET runs == getRuns(item)
  IN  IF runs.type # "array" THEN [item |-> item, returned |-> Undefined]
      ELSE [item |-> Some(JSON_stringify(JsArray(<<run>> \o runs.items))),
            returned |-> Undefined]

deleteRun(item, id) ==
  LET runs == getRuns(item)
      Differs(run) == IdDiffers(run, id).ok /\ IdDiffers(run, id).value
  IN  IF \/ runs.type # "array"
         \/ \E k \in 1..Len(runs.items) : ~IdDiffers(runs.items[k], id).ok
      THEN [item |-> item, returned |-> Undefined]
      ELSE [item |-> Some(JSON_stringify(JsArray(SelectSeq(runs.items, Differs)))),
            returned |-> Undefined]

importFromJSON(item, jsonString) ==
  LET runs == JSON_parse(jsonString)
  IN  IF ~runs.ok THEN [item |-> item, returned |-> Some(FALSE)]
      ELSE IF runs.value.type = "array"
      THEN [item |-> Some(JSON_stringify(runs.value)), returned |-> Some(TRUE)]
      ELSE [item |-> item, returned |-> Some(FALSE)]

clearAll(item) == [item |-> Undefined, returned |-> Undefined]

\* the longest list of runs that the sessions store
MaxRuns == 3

RunIds == {"a", "b"}

Runs == {CalculationRun(id, JsNumber(result)) : id \in RunIds, result \in {R(1), RFrac(0, 0)}}

JsonTexts ==
  {InvalidText, TextOf(JsonNull), TextOf(CalculationRun("a", JsNumber(R(1))))}
  \cup {TextOf(JsArray(items)) :
          items \in {<<>>,
                     <<CalculationRun("a", JsNumber(R(1)))>>,
                     <<CalculationRun("b", JsNumber(R(1))),
                       CalculationRun("a", JsNumber(R(1)))>>,
                     <<CalculationRun("a", JsNumber(R(1))),
                       CalculationRun("b", JsNumber(R(1))),
                       CalculationRun("a", JsNumber(R(1)))>>,
                     <<CalculationRun("a", JsNumber(R(1))), JsonNull>>,
                     <<JsNumber(R(1)), CalculationRun("b", JsNumber(R(1)))>>}}

InitStorage ==
  /\ inputs = NoLoadCase
  /\ results = [m \in Modes |-> Undefined]
  /\ conv = NoConversion
  /\ surface = [kind |-> "STORAGE", item |-> Undefined, op |-> "none",
                arg |-> JsonNull, before |-> Undefined, returned |-> Undefined]

Called(op, arg, outcome) ==
  /\ surface' = [kind |-> "STORAGE", item |-> outcome.item, op |-> op,
                 arg |-> arg, before |-> surface.item,
                 returned |-> outcome.returned]
  /\ UNCHANGED <<inputs, results, conv>>

SaveRun ==
  /\ surface.kind = "STORAGE"
  /\ Len(getRuns(surface.item).items) < MaxRuns
  /\ \E run \in Runs : Called("saveRun", run, saveRun(surface.item, run))

DeleteRun ==
  /\ surface.kind = "STORAGE"
  /\ \E id \in RunIds :
       Called("deleteRun", [type |-> "string", value |-> id],
              deleteRun(surface.item, id))

ImportFromJSON ==
  /\ surface.kind = "STORAGE"
  /\ \E jsonString \in JsonTexts :
       Called("importFromJSON", jsonString,
              importFromJSON(surface.item, jsonString))

ClearAll ==
  /\ surface.kind = "STORAGE"
  /\ Called("clearAll", JsonNull, clearAll(surface.item))

NextStorage ==
  \/ SaveRun
  \/ DeleteRun
  \/ ImportFromJSON
  \/ ClearAll

StorageSpec == InitStorage /\ [][NextStorage]_vars

----------------------------------------------------------------------------
(* Properties.  Ran(m) says that the engine of mode m has returned, and    *)
(* Res(m) is what it returned; stresses are read from the result by their  *)
(* canonical magnitude v.                                                  *)

Ran(m) == results[m] # Undefined

Res(m) == results[m][1]

States == {"atZeroPressure", "atMOP"}

\* limit percentage / 100 x SMYS
Allowable(limitPct) == RMul(RDiv(limitPct, R(100)), inputs.SMYS_psi)

Governing(envelope) == RMax(RAbs(envelope.high.v), RAbs(envelope.low.v))

\* max(|longInt + longTherm + longSoil|, |longInt + longTherm - longSoil|)
SustainedValue(r, st) ==
  LET k == r.stresses[st].longitudinal.components
      base == RAdd(k.pressure.v, k.thermal.v)
  IN  RMax(RAbs(RAdd(base, k.earth.v)), RAbs(RSub(base, k.earth.v)))

LiveLongPasses(r) ==
  \A st \in States : RLe(Governing(r.stresses[st].longitudinal),
                         Allowable(r.limitsUsed.longLimitPct))

SustainedExceeds(r) ==
  \E st \in States : RLt(Allowable(r.limitsUsed.longLimitPct),
                         SustainedValue(r, st))

HoopPasses(r) ==
  \A st \in States : RLe(Governing(r.stresses[st].hoop),
                         Allowable(r.limitsUsed.hoopLimitPct))

EquivPasses(r) ==
  \A st \in States : NLeR(r.stresses[st].equivalent.high.v,
                          Allowable(r.limitsUsed.equivLimitPct))

\* C1: in every engine, a stress state whose live-inclusive longitudinal
\* check passes at zero pressure and at MOP while the sustained value
\* exceeds longLimit x SMYS at either state gives overallPass = FALSE under
\* B31_4, and overallPass = TRUE under B31_8 or CSA_Z662 when the hoop and
\* equivalent checks pass.
C1_SustainedCheck ==
  \A m \in Modes :
    (Ran(m) /\ LiveLongPasses(Res(m)) /\ SustainedExceeds(Res(m))) =>
      /\ inputs.codeCheck = "B31_4" => ~Res(m).passFailSummary.overallPass
      /\ (inputs.codeCheck \in {"B31_8", "CSA_Z662"}
          /\ HoopPasses(Res(m)) /\ EquivPasses(Res(m)))
         => Res(m).passFailSummary.overallPass

Flags(r) == r.passFailSummary

SixFlags(r) ==
  /\ Flags(r).hoopAtZero /\ Flags(r).hoopAtMOP
  /\ Flags(r).longitudinalAtZero /\ Flags(r).longitudinalAtMOP
  /\ Flags(r).equivalentAtZero /\ Flags(r).equivalentAtMOP

\* C2: in the result of every engine, overallPass is TRUE exactly when the
\* six flags hoopAtZero, hoopAtMOP, longitudinalAtZero, longitudinalAtMOP,
\* equivalentAtZero and equivalentAtMOP are all TRUE.
C2_OverallIsAllSix ==
  \A m \in Modes : Ran(m) => (Flags(Res(m)).overallPass <=> SixFlags(Res(m)))

\* the track engine has returned a result whose hoop and longitudinal flags
\* are TRUE, whose equivalent flags are FALSE and whose overallPass is FALSE
C2_Witness ==
  /\ Ran("PIPELINE_TRACK")
  /\ LET f == Flags(Res("PIPELINE_TRACK"))
     IN  /\ f.hoopAtZero /\ f.hoopAtMOP
         /\ f.longitudinalAtZero /\ f.longitudinalAtMOP
         /\ ~f.equivalentAtZero /\ ~f.equivalentAtMOP /\ ~f.overallPass

FlagAt(r, check, st) ==
  IF st = "atZeroPressure" THEN Flags(r)[check \o "AtZero"]
  ELSE Flags(r)[check \o "AtMOP"]

\* C3: in every engine and at either state, each of the hoop, longitudinal
\* and equivalent flags is FALSE when the governing stress is strictly above
\* (limit percentage / 100) x SMYS, and TRUE when it is at or below it (for
\* the longitudinal flag under a sustained-check code: when the sustained
\* value is at or below it as well).
C3_InclusiveBoundary ==
  \A m \in Modes : \A st \in States :
    Ran(m) =>
      LET r == Res(m)
          hoopAllowable == Allowable(r.limitsUsed.hoopLimitPct)
          longAllowable == Allowable(r.limitsUsed.longLimitPct)
          equivAllowable == Allowable(r.limitsUsed.equivLimitPct)
          hoop == Governing(r.stresses[st].hoop)
          long == Governing(r.stresses[st].longitudinal)
          equiv == r.stresses[st].equivalent.high.v
      IN  /\ FlagAt(r, "hoop", st) <=> RLe(hoop, hoopAllowable)
          /\ RLt(longAllowable, long) => ~FlagAt(r, "longitudinal", st)
          /\ (RLe(long, longAllowable)
              /\ (r.limitsUsed.usesSustainedLongCheck
                  => RLe(SustainedValue(r, st), longAllowable)))
             => FlagAt(r, "longitudinal", st)
          /\ FlagAt(r, "equivalent", st) <=> NLeR(equiv, equivAllowable)

SameEnvelope(e1, e2) == e1.high.v = e2.high.v /\ e1.low.v = e2.low.v

SameDownstream(r1, r2) ==
  /\ r1.ePrimeUsed.v = r2.ePrimeUsed.v
  /\ r1.soilLoadOnPipe.v = r2.soilLoadOnPipe.v
  /\ \A st \in States :
       /\ SameEnvelope(r1.stresses[st].hoop, r2.stresses[st].hoop)
       /\ SameEnvelope(r1.stresses[st].longitudinal, r2.stresses[st].longitudinal)
       /\ SameEnvelope(r1.stresses[st].equivalent, r2.stresses[st].equivalent)
  /\ Flags(r1) = Flags(r2)

\* C4: for the same load case (same pipe, soil, E', analysis and code inputs
\* and the same Boussinesq pressure and impact factor) any two engines give
\* the same E', soil load, hoop and longitudinal high and low envelopes,
\* equivalent stresses and pass/fail flags.
C4_SameDownstreamStages ==
  \A m1, m2 \in Modes :
    (Ran(m1) /\ Ran(m2)) => SameDownstream(Res(m1), Res(m2))

\* a reported pressure is the psi value divided by 0.1450378911491
Converted(p) == p = DivKPaFactor(p.v)

ComponentsConverted(k) ==
  Converted(k.pressure) /\ Converted(k.earth) /\ Converted(k.thermal)
  /\ Converted(k.total)

StateConverted(x) ==
  /\ Converted(x.hoop.high) /\ Converted(x.hoop.low)
  /\ ComponentsConverted(x.hoop.components)
  /\ Converted(x.longitudinal.high) /\ Converted(x.longitudinal.low)
  /\ ComponentsConverted(x.longitudinal.components)
  /\ Converted(x.equivalent.high) /\ Converted(x.equivalent.low)

DebugConverted(d) ==
  /\ Converted(d.soilPressure_psi) /\ Converted(d.boussinesqMax_psi)
  /\ Converted(d.ePrime_psi) /\ Converted(d.hoopSoil_psi)
  /\ Converted(d.hoopLive_psi) /\ Converted(d.hoopInt_psi)
  /\ Converted(d.longSoil_psi) /\ Converted(d.longLive_psi)
  /\ Converted(d.longInt_psi) /\ Converted(d.longTherm_psi)

\* C5: for an SI load case, every pressure-valued field of the result of
\* every engine is the psi value converted to the SI unit.
C5_AllPressuresConverted ==
  \A m \in Modes :
    (Ran(m) /\ inputs.unitsSystem = "SI") =>
      LET r == Res(m)
      IN  /\ Converted(r.maxSurfacePressureOnPipe)
          /\ Converted(r.allowableStress)
          /\ Converted(r.ePrimeUsed)
          /\ Converted(r.soilLoadOnPipe)
          /\ \A st \in States : StateConverted(r.stresses[st])
          /\ DebugConverted(r.debug)

RoundTripTypes == {"length", "depth", "pressure", "force", "density"}

BeddingAngles == {0, 30, 60, 90, 120, 150, 180}

\* C7: for a bedding angle outside {0, 30, 60, 90, 120, 150, 180} no engine
\* returns a result.
C7_BeddingAngleValidated ==
  \A m \in Modes : Ran(m) => inputs.beddingAngleDeg \in BeddingAngles

\* C8: with ePrimeMethod = LOOKUP, a soil type and a compaction anchor, the
\* E' of every engine is Epr1 x Epr2^H x (compaction / 100)^Epr3 for the
\* coefficients of the table row of that soil type and compaction:
\* 2000 x 0.9^4 = 1312.2 for COARSE_WITH_FINES at 90.
C8_LookupFromTable ==
  \A m \in Modes :
    (Ran(m) /\ inputs.ePrimeMethod = "LOOKUP" /\ inputs.soilType # Undefined
     /\ inputs.compaction # Undefined) =>
      LET row == E_PRIME_TABLE(inputs.soilType[1], inputs.compaction[1].n)
          fromRow == RMul(RMul(row.Epr1, Pow(row.Epr2, inputs.H_ft)),
                          Pow(RDiv(inputs.compaction[1], R(100)), row.Epr3))
      IN  /\ Res(m).ePrimeUsed.v = fromRow
          /\ (inputs.soilType = Some("COARSE_WITH_FINES")
              /\ inputs.compaction = Some(R(90)))
             => Res(m).ePrimeUsed.v = RFrac(13122, 10)

\* C9: with ePrimeMethod = USER_DEFINED, the E' of every engine is the
\* user-supplied value.
C9_UserDefinedPassedThrough ==
  \A m \in Modes :
    (Ran(m) /\ inputs.ePrimeMethod = "USER_DEFINED") =>
      inputs.ePrimeUserDefined = Some(Res(m).ePrimeUsed.v)

Shallow == RLt(RMul(inputs.H_ft, R(12)), RMul(RFrac(5, 2), inputs.D_in))

UnitWeightTimesDepth == RDiv(RMul(inputs.rho_lbft3, inputs.H_ft), R(144))

FiniteNumber(x) ==
  IF "rad" \in DOMAIN x THEN x.q.d # 0 /\ ~(x.rad /\ x.q.n < 0) ELSE x.d # 0

FiniteEnvelope(e) ==
  /\ FiniteNumber(e.high.v) /\ FiniteNumber(e.low.v)
  /\ \A k \in {"pressure", "earth", "thermal", "total"} : FiniteNumber(e.components[k].v)

\* C13: whatever the wall thickness and SMYS, no result an engine returns
\* holds an infinity or NaN as a hoop, longitudinal or equivalent stress or
\* as percentSMYS.
C13_NoNonFiniteResult ==
  \A m \in Modes :
    Ran(m) =>
      \A st \in States :
        /\ FiniteEnvelope(Res(m).stresses[st].hoop)
        /\ FiniteEnvelope(Res(m).stresses[st].longitudinal)
        /\ FiniteNumber(Res(m).stresses[st].equivalent.high.v)
        /\ FiniteNumber(Res(m).stresses[st].equivalent.low.v)
        /\ FiniteNumber(Res(m).stresses[st].equivalent.percentSMYS)

\* the fields the selected modes require are present in the inputs
RequiredFieldsPresent ==
  /\ inputs.codeCheck = "USER_DEFINED" => inputs.userDefinedLimits # Undefined
  /\ inputs.ePrimeMethod = "LOOKUP" =>
       inputs.soilType # Undefined /\ inputs.compaction # Undefined

\* C14: an engine returns a result only when the fields its modes require
\* were given: USER_DEFINED code with its limits, LOOKUP E' with a soil type
\* and a compaction. In particular no result reports limits the user never
\* entered.
C14_RequiredFieldsValidated ==
  \A m \in Modes : Ran(m) => RequiredFieldsPresent

\* the four combinations of a hoop and a longitudinal envelope under the
\* equivalent stress method of the inputs
Combinations(hoop, long) ==
  LET Case(h, l) == IF inputs.equivStressMethod = "TRESCA" THEN TrescaCase(h, l)
                    ELSE VonMisesCase(h, l)
  IN  {Case(hoop.high.v, long.high.v), Case(hoop.high.v, long.low.v),
       Case(hoop.low.v, long.high.v), Case(hoop.low.v, long.low.v)}

\* p is the number x, whether p is kept as a rational or as a radical
SamePercent(p, x) ==
  IF "rad" \in DOMAIN p THEN p = x ELSE ~x.rad /\ p = x.q

\* C18: in every engine's result and for both methods, equivalent.high is
\* the largest and equivalent.low the smallest of the four combinations of
\* the hoop and longitudinal extremes, 0 <= low <= high, and percentSMYS is
\* equivalent.high / SMYS (stated for results in psi of a pipe with a wall and
\* a yield strength).
C18_EquivalentStress ==
  \A m \in Modes :
    (/\ Ran(m) /\ inputs.unitsSystem = "EN"
     /\ inputs.t_in # R(0) /\ inputs.SMYS_psi # R(0)) =>
      \A st \in States :
        LET e == Res(m).stresses[st].equivalent
            cases == Combinations(Res(m).stresses[st].hoop,
                                  Res(m).stresses[st].longitudinal)
        IN  /\ e.high.v \in cases
            /\ e.low.v \in cases
            /\ \A c \in cases : RLe(c.q, e.high.v.q) /\ RLe(e.low.v.q, c.q)
            /\ RLe(R(0), e.low.v.q)
            /\ SamePercent(e.percentSMYS, NDivR(e.high.v, inputs.SMYS_psi))

\* C19: with a positive SMYS the allowableStress of every engine's result is
\* strictly positive, and (in psi) it is a limit fraction of the code in
\* use times SMYS, so that a stress divided by it is a finite fraction of
\* the allowable.
C19_AllowableStress ==
  \A m \in Modes :
    (Ran(m) /\ RLt(R(0), inputs.SMYS_psi)) =>
      /\ RLt(R(0), Res(m).allowableStress.v)
      /\ inputs.unitsSystem = "EN" =>
           Res(m).allowableStress.v \in
             {Allowable(Res(m).limitsUsed.hoopLimitPct),
              Allowable(Res(m).limitsUsed.longLimitPct),
              Allowable(Res(m).limitsUsed.equivLimitPct)}

\* the thermal component of the longitudinal stress of a result, in psi
Thermal(r, st) == r.stresses[st].longitudinal.components.thermal.v

\* C27: the thermal longitudinal stress has magnitude 30e6 x 6.5e-6 x
\* |deltaT| = 195 |deltaT| psi, is the same at zero pressure and at MOP, and
\* for deltaT > 0 is compressive: negative, where the longitudinal stress of
\* the internal pressure is positive (stated for results in psi).
C27_ThermalStress ==
  \A m \in Modes :
    (Ran(m) /\ inputs.unitsSystem = "EN") =>
      /\ RAbs(Thermal(Res(m), "atMOP")) = RMul(R(195), RAbs(inputs.deltaT_F))
      /\ Thermal(Res(m), "atZeroPressure") = Thermal(Res(m), "atMOP")
      /\ RLt(R(0), inputs.deltaT_F) =>
           /\ RLt(Thermal(Res(m), "atMOP"), R(0))
           /\ RLe(R(0), Res(m).stresses["atMOP"].longitudinal.components.pressure.v)

\* the limit percentage a result used for a check
LimitPct(r, check) ==
  IF check = "hoop" THEN r.limitsUsed.hoopLimitPct ELSE r.limitsUsed.longLimitPct

\* C28: in every engine, when the larger magnitude of the two bounds of the
\* hoop or longitudinal envelope at zero pressure or at MOP exceeds the
\* allowable, the flag of that check at that state is FALSE and so is
\* overallPass (stated for results in psi of a pipe with a wall and a yield
\* strength).
C28_GoverningMagnitude ==
  \A m \in Modes :
    (/\ Ran(m) /\ inputs.unitsSystem = "EN"
     /\ inputs.t_in # R(0) /\ inputs.SMYS_psi # R(0)) =>
      \A st \in States, check \in {"hoop", "longitudinal"} :
        RLt(Allowable(LimitPct(Res(m), check)), Governing(Res(m).stresses[st][check])) =>
          /\ ~FlagAt(Res(m), check, st)
          /\ ~Flags(Res(m)).overallPass

----------------------------------------------------------------------------
(* Properties of the surface stage.  Done(kind) says that a request of     *)
(* that kind has been answered, and Out is the answer.                     *)

Done(kind) == surface.kind = kind /\ surface.out # Undefined

Out == surface.out[1]

\* neither an infinity nor NaN
IsFinite(x) == x.q.d # 0 /\ ~(x.rad /\ x.q.n < 0)

\* the same real number, whether written as a rational or as a square root
SameNumber(x, y) ==
  /\ IsFinite(x) /\ IsFinite(y)
  /\ IF x.rad = y.rad THEN x.q = y.q
     ELSE IF x.rad THEN y.q.n >= 0 /\ RMul(y.q, y.q) = x.q
     ELSE x.q.n >= 0 /\ RMul(x.q, x.q) = y.q

ContactArea(axleLoad_lb, tiresPerAxle, tirePressure_psi) ==
  RDiv(RDiv(axleLoad_lb, tiresPerAxle), tirePressure_psi)

PositivePatch(axleLoad_lb, tiresPerAxle, tirePressure_psi, tireWidth_in) ==
  axleLoad_lb.n > 0 /\ tiresPerAxle.n > 0 /\ tirePressure_psi.n > 0 /\ tireWidth_in.n > 0

\* an axle of an AUTO request with positive load, tire count, pressure and width
AutoAxle(k) ==
  /\ surface.req.contactPatchMode = "AUTO"
  /\ surface.req.axles[k].tirePressure # Undefined
  /\ surface.req.axles[k].tiresPerAxle # Undefined
  /\ PositivePatch(surface.req.axles[k].load_lb, surface.req.axles[k].tiresPerAxle[1],
                   surface.req.axles[k].tirePressure[1], surface.req.axles[k].tireWidth_in)

\* C11: for positive axle load, tire count, tire pressure and tire width the
\* contact patch has area (axle load / tires per axle) / tire pressure,
\* length area / tire width and width the given tire width; and in AUTO
\* mode the 3-axle engine generates each axle's footprint with that length.
C11_ContactPatch ==
  /\ (/\ Done("PATCH")
      /\ PositivePatch(surface.req.axleLoad_lb, surface.req.tiresPerAxle,
                       surface.req.tirePressure_psi, surface.req.fourth))
     => LET area == ContactArea(surface.req.axleLoad_lb, surface.req.tiresPerAxle,
                                surface.req.tirePressure_psi)
        IN  /\ Out.ok
            /\ Out.value.contactArea_in2 = area
            /\ SameNumber(Out.value.contactLength_in, Lin(RDiv(area, surface.req.fourth)))
            /\ SameNumber(Out.value.contactWidth_in, Lin(surface.req.fourth))
  /\ (Done("AXLES") /\ Out.ok)
     => \A k \in 1..3 :
          AutoAxle(k) =>
            SameNumber(Out.value.tireLength_in[k],
                       Lin(RDiv(ContactArea(surface.req.axles[k].load_lb,
                                            surface.req.axles[k].tiresPerAxle[1],
                                            surface.req.axles[k].tirePressure[1]),
                                surface.req.axles[k].tireWidth_in)))

\* an axle whose footprint is invalid: width, length or load not positive,
\* or tire pressure or tire count missing for automatic sizing
InvalidAxle(mode, axle) ==
  \/ axle.tireWidth_in.n <= 0
  \/ axle.load_lb.n <= 0
  \/ mode = "MANUAL" /\ axle.tireLength_in.n <= 0
  \/ mode = "AUTO" /\ (axle.tirePressure = Undefined \/ axle.tiresPerAxle = Undefined)

\* a grid footprint with a dimension or its load missing or not positive
InvalidGrid(req) ==
  \/ req.gridWidth_ft.n <= 0
  \/ req.gridLength_ft.n <= 0
  \/ req.loadType = "TOTAL_LOAD" /\ (req.totalLoad = Undefined \/ req.totalLoad[1].n <= 0)
  \/ req.loadType = "UNIFORM_PRESSURE"
       /\ (req.uniformPressure = Undefined \/ req.uniformPressure[1].n <= 0)

\* C12: a footprint whose width, length or load is not positive, or (in AUTO
\* mode) an axle without tire pressure or tire count, makes the footprint
\* generation raise an error instead of returning point loads.
C12_InvalidFootprintRejected ==
  /\ (Done("AXLES")
      /\ \E k \in 1..3 : InvalidAxle(surface.req.contactPatchMode, surface.req.axles[k]))
     => ~Out.ok
  /\ (Done("GRID") /\ InvalidGrid(surface.req)) => ~Out.ok

\* max is the largest of the pressures and location labels the first
\* measurement point whose pressure is max
GoverningOf(pressures, labels, max, location) ==
  /\ \A k \in 1..Len(pressures) : RLe(pressures[k], max)
  /\ \E k \in 1..Len(pressures) :
       /\ pressures[k] = max
       /\ labels[k] = location
       /\ \A j \in 1..(k - 1) : pressures[j] # max

\* C15: the governing surface pressure is the maximum of the pressures at
\* the measurement points, and the reported location is the label of the
\* first point whose pressure equals that maximum, both for the helper
\* used by the axle and grid engines and for the Track engine's two sums.
C15_GoverningIsMaximum ==
  /\ (Done("GRID") /\ Out.ok) =>
       GoverningOf(Out.value.pressures_psi,
                   <<"Under load center", "At pipe centerline">>,
                   Out.value.maxPressure_psi, Out.value.maxLocation)
  /\ Done("TRACK_SUMS") =>
       GoverningOf(<<Out.bsnqSUM1_psi, Out.bsnqSUM2_psi>>,
                   <<"Under the tracks (at track edge)",
                     "Between tracks (at centerline)">>,
                   Out.bsnqMax_psi, Out.location)

\* a grid centred on the pipe: both measurement points see the same positive
\* pressure and the first one is reported
C15_Witness ==
  /\ Done("GRID") /\ Out.ok
  /\ Out.value.pressures_psi[1] = Out.value.pressures_psi[2]
  /\ RLt(R(0), Out.value.maxPressure_psi)
  /\ Out.value.maxLocation = "Under load center"

\* C16: with the load and the measurement points fixed, a grid-stage
\* request that differs only by a larger depth of cover has a governing
\* pressure no larger than the shallower one's.
C16_DepthMonotone ==
  (Done("GRID") /\ Out.ok /\ RLt(R(0), Out.value.totalLoad_lb)) =>
    \A deeper \in GridRequests :
      (/\ deeper.req = [surface.req EXCEPT !.H_ft = deeper.req.H_ft]
       /\ RLt(surface.req.H_ft, deeper.req.H_ft)) =>
        RLe(SurfaceGrid(deeper.req).value.maxPressure_psi, Out.value.maxPressure_psi)

\* the base impact factor of a vehicle class on a pavement type
BaseImpactFactor(vehicleClass, pavementType) ==
  CASE vehicleClass = "HIGHWAY" /\ pavementType = "RIGID" -> R(1)
    [] vehicleClass = "HIGHWAY" /\ pavementType = "FLEXIBLE" -> RFrac(3, 2)
    [] vehicleClass = "FARM" -> RFrac(5, 4)
    [] vehicleClass = "TRACK" -> RFrac(3, 2)

\* the impact factor the engine of the request computes at depth H_ft
ImpactFactorAt(H_ft) ==
  IF surface.req.engine = "TRACK"
  THEN calculateImpactFactor_Track(surface.req.vehicleClass,
                                   surface.req.pavementType, H_ft).impactFactorDepth
  ELSE calculateImpactFactor(surface.req.vehicleClass,
                             surface.req.pavementType, H_ft).impactFactorDepth

\* C17: the base impact factor is 1.0 for HIGHWAY on RIGID pavement, 1.5 for
\* HIGHWAY on FLEXIBLE, 1.25 for FARM and 1.5 for TRACK; up to 60 in of
\* cover the factor used is the base factor, beyond it
\* max(1.0, base - 0.0025 x (depth_in - 60)); so it is at least 1.0, at
\* most the base factor, and no larger at a larger depth.
C17_ImpactFactor ==
  Done("IMPACT") =>
    LET base == BaseImpactFactor(surface.req.vehicleClass, surface.req.pavementType)
        depth_in == RMul(surface.req.H_ft, R(12))
        decayed == RSub(base, RMul(RFrac(1, 400), RSub(depth_in, R(60))))
    IN  /\ Out.impactFactor = base
        /\ RLe(depth_in, R(60)) => Out.impactFactorDepth = base
        /\ RLt(R(60), depth_in) =>
             Out.impactFactorDepth = (IF RLe(R(1), decayed) THEN decayed ELSE R(1))
        /\ RLe(R(1), Out.impactFactorDepth)
        /\ RLe(Out.impactFactorDepth, base)
        /\ \A H \in 1..MaxDepth_ft :
             RLt(surface.req.H_ft, R(H)) =>
               RLe(ImpactFactorAt(R(H)), Out.impactFactorDepth)

\* a cover deep enough for the floor of 1.0 to replace a decayed factor
C17_Witness ==
  /\ Done("IMPACT")
  /\ RLt(R(60), RMul(surface.req.H_ft, R(12)))
  /\ Out.impactFactorDepth = R(1)
  /\ RLt(R(1), Out.impactFactor)
  /\ RLt(RSub(Out.impactFactor,
              RMul(RFrac(1, 400), RSub(RMul(surface.req.H_ft, R(12)), R(60)))), R(1))

\* the result of the engine the type tag names
EngineResults(type, i) ==
  CASE type = "TRACK" -> calculateTrackVehicleVBA(i)
    [] type = "2_AXLE" -> calculate2AxleVehicleVBA(i)
    [] type = "3_AXLE" -> calculate3AxleVehicleVBA(i)
    [] type = "GRID" -> calculateGridLoadVBA(i)

Interpolated(lower, upper, lowerComp, c) ==
  RAdd(lower, RMul(RDiv(RSub(c, R(lowerComp)), R(5)), RSub(upper, lower)))

\* C21: getEPrimeCoefficients returns the table row at the compactions 80,
\* 85, 90, 95 and 100, the 80 row below 80 and the 100 row above 100, and
\* otherwise, for each of Epr1, Epr2 and Epr3, the linear interpolation
\* between the rows of the two anchors around the compaction; at 87.5 that is
\* the midpoint of the 85 and 90 rows.
C21_CoefficientLookup ==
  Done("COEFFICIENTS") =>
    LET c == surface.req.compaction
        Row(anchor) == E_PRIME_TABLE(surface.req.soilType, anchor)
        lowerComp == CHOOSE a \in {80, 85, 90, 95} : RLt(R(a), c) /\ RLt(c, R(a + 5))
    IN  /\ \A a \in {80, 85, 90, 95, 100} : c = R(a) => Out = Row(a)
        /\ RLt(c, R(80)) => Out = Row(80)
        /\ RLt(R(100), c) => Out = Row(100)
        /\ (RLt(R(80), c) /\ RLt(c, R(100)) /\ c \notin {R(85), R(90), R(95)}) =>
             \A f \in {"Epr1", "Epr2", "Epr3"} :
               Out[f] = Interpolated(Row(lowerComp)[f], Row(lowerComp + 5)[f], lowerComp, c)
        /\ c = RFrac(175, 2) =>
             \A f \in {"Epr1", "Epr2", "Epr3"} :
               Out[f] = RDiv(RAdd(Row(85)[f], Row(90)[f]), R(2))

\* the coefficients of COARSE_WITH_FINES at 87.5: 1700, 1.0 and 4.25
C21_Witness ==
  /\ Done("COEFFICIENTS")
  /\ surface.req = [soilType |-> "COARSE_WITH_FINES", compaction |-> RFrac(175, 2)]
  /\ Out = [Epr1 |-> R(1700), Epr2 |-> R(1), Epr3 |-> RFrac(17, 4)]

\* the sum of the loads of a sequence of point loads
SumOfLoads(points) ==
  LET sum[k \in 0..Len(points)] ==
        IF k = 0 THEN R(0) ELSE RAdd(sum[k - 1], points[k].load_lb)
  IN  sum[Len(points)]

\* count cells, each carrying total / count, together the total
EqualCells(points, total, count) ==
  /\ Len(points) = count
  /\ \A p \in 1..Len(points) : points[p].load_lb = RDiv(total, R(count))
  /\ SumOfLoads(points) = total

\* max(1, ceil(length / 6)) for a positive length that may be a square root:
\* the least number of 6 in cells that cover it
Cells6(length) ==
  LET Covers(k) == IF length.rad THEN RLe(length.q, R(36 * k * k))
                   ELSE RLe(length.q, R(6 * k))
      n == CHOOSE k \in 0..(length.q.n + 1) :
             Covers(k) /\ \A j \in 0..(k - 1) : ~Covers(j)
  IN  IF n >= 1 THEN n ELSE 1

\* the coordinate is within half the length of the center
WithinHalf(coordinate, center, length) ==
  LET d == RAbs(RSub(coordinate, center))
  IN  IF length.rad THEN RLe(RMul(R(4), RMul(d, d)), length.q)
      ELSE RLe(RMul(R(2), d), length.q)

\* every point lies in the rectangle of the given center, width and length
InsideRectangle(points, centerX, centerY, width, length) ==
  \A p \in 1..Len(points) :
    /\ WithinHalf(points[p].x, centerX, width)
    /\ WithinHalf(points[p].y, centerY, length)

\* the footprints of an answered request with positive loads and
\* dimensions (and at least one division each way for GRID): total load,
\* cell count due, center, width, length and generated points of each
Footprints ==
  CASE Done("AXLES") /\ Out.ok
       /\ \A k \in 1..3 : /\ RLt(R(0), surface.req.axles[k].load_lb)
                           /\ RLt(R(0), surface.req.axles[k].tireWidth_in)
                           /\ RLt(R(0), Out.value.tireLength_in[k].q) ->
         {[total |-> surface.req.axles[k].load_lb,
           count |-> Cells6(Lin(RMul(surface.req.axles[k].tireWidth_in, R(2))))
                     * Cells6(Out.value.tireLength_in[k]),
           centerX |-> RMul(surface.req.laneOffset_ft, R(12)),
           centerY |-> Out.value.axle_Y[k],
           width |-> Lin(RMul(surface.req.axles[k].tireWidth_in, R(2))),
           length |-> Out.value.tireLength_in[k],
           points |-> Out.value.axleLoads[k]] : k \in 1..3}
    [] Done("AXLES2") ->
         {[total |-> surface.req.axleLoad_lb[k],
           count |-> Cells6(Lin(RMul(surface.req.tireWidth_in, R(2))))
                     * Cells6(Lin(surface.req.tireLength_in)),
           centerX |-> RMul(surface.req.laneOffset_ft, R(12)),
           centerY |-> Out.value.axle_Y[k],
           width |-> Lin(RMul(surface.req.tireWidth_in, R(2))),
           length |-> Lin(surface.req.tireLength_in),
           points |-> Out.value.axleLoads[k]] : k \in 1..2}
    [] Done("TRACKS") /\ RLt(R(0), surface.req.trackWidth_in) ->
         {[total |-> RDiv(surface.req.vehicleWeight_lb, R(2)),
           count |-> Cells6(Lin(surface.req.trackWidth_in))
                     * Cells6(Lin(RMul(surface.req.trackLength_ft, R(12)))),
           centerX |-> RMul(R(3 - 2 * k), RMul(surface.req.trackSeparation_ft, R(6))),
           centerY |-> R(0),
           width |-> Lin(surface.req.trackWidth_in),
           length |-> Lin(RMul(surface.req.trackLength_ft, R(12))),
           points |-> Out.tracks[k]] : k \in 1..2}
    [] Done("GRID") /\ Out.ok /\ RLt(R(0), Out.value.totalLoad_lb)
       /\ RLt(R(0), surface.req.gridWidth_ft) /\ RLt(R(0), surface.req.gridLength_ft)
       /\ surface.req.gridDivisionsX > 0 /\ surface.req.gridDivisionsY > 0 ->
         {[total |-> IF surface.req.loadType = "TOTAL_LOAD" THEN surface.req.totalLoad[1]
                     ELSE RMul(surface.req.uniformPressure[1],
                               RMul(RMul(surface.req.gridWidth_ft, R(12)),
                                    RMul(surface.req.gridLength_ft, R(12)))),
           count |-> surface.req.gridDivisionsX * surface.req.gridDivisionsY,
           centerX |-> RMul(surface.req.gridOffsetX_ft, R(12)),
           centerY |-> RMul(surface.req.gridOffsetY_ft, R(12)),
           width |-> Lin(RMul(surface.req.gridWidth_ft, R(12))),
           length |-> Lin(RMul(surface.req.gridLength_ft, R(12))),
           points |-> Out.value.pointLoads]}
    [] OTHER -> {}

Mirrored(points, others) ==
  \A p \in 1..Len(points) :
    \E q \in 1..Len(others) :
      /\ others[q].x = RNeg(points[p].x)
      /\ others[q].y = points[p].y
      /\ others[q].load_lb = points[p].load_lb

\* C23: for a positive track width, the point loads of the two tracks are
\* mirror images of each other about the pipe axis.
C23_TrackSymmetry ==
  (Done("TRACKS") /\ RLt(R(0), surface.req.trackWidth_in)) =>
    /\ Mirrored(Out.tracks[1], Out.tracks[2])
    /\ Mirrored(Out.tracks[2], Out.tracks[1])

\* the mean of a coordinate over a non-empty sequence of points
MeanOf(points, axis) ==
  LET sum[k \in 0..Len(points)] ==
        IF k = 0 THEN R(0) ELSE RAdd(sum[k - 1], points[k][axis])
  IN  RDiv(sum[Len(points)], R(Len(points)))

\* the footprint of each axle is centred laterally on the lane offset
CentredOnLane(axleLoads) ==
  \A k \in 1..Len(axleLoads) :
    MeanOf(axleLoads[k], "x") = RMul(surface.req.laneOffset_ft, R(12))

\* C24: each axle footprint is centred laterally on the lane offset, and
\* consecutive axle centres are as far apart along the travel axis as the
\* spacing between those axles: axle1To2Spacing between axles 1 and 2 and
\* axle2To3Spacing between axles 2 and 3 in the 3-axle engine, axleSpacing in
\* the 2-axle engine.
C24_AxlePlacement ==
  /\ (Done("AXLES") /\ Out.ok) =>
       /\ CentredOnLane(Out.value.axleLoads)
       /\ RAbs(RSub(Out.value.axle_Y[2], Out.value.axle_Y[1]))
            = RMul(surface.req.axle1To2Spacing_ft, R(12))
       /\ RAbs(RSub(Out.value.axle_Y[3], Out.value.axle_Y[2]))
            = RMul(surface.req.axle2To3Spacing_ft, R(12))
  /\ Done("AXLES2") =>
       /\ CentredOnLane(Out.value.axleLoads)
       /\ RAbs(RSub(Out.value.axle_Y[2], Out.value.axle_Y[1]))
            = RMul(surface.req.axleSpacing_ft, R(12))

\* C25: the live pressure handed to the hoop formula and the surface load
\* Wsurf of the axial bending term (here divided by pi) are both built on
\* the governing Boussinesq maximum times the depth-adjusted impact factor,
\* taken once: Wsurf = (maximum x impact factor) x 2 pi H^2 / 3.
C25_ImpactFactorOnce ==
  Done("LIVE") =>
    LET H_in == RMul(surface.req.H_ft, R(12))
        live == RMul(surface.req.maxPressure_psi, Out.impactFactorDepth)
    IN  /\ Out.BsnqIF = live
        /\ Out.Wsurf = RDiv(RMul(RMul(live, R(2)), RMul(H_in, H_in)), R(3))

----------------------------------------------------------------------------
(* Properties of the sensitivity sweep *)

SweepReturned == surface.kind = "SWEEP" /\ surface.out # Undefined /\ surface.out[1].ok

\* a pass of the value-generation loop that finds the loop condition true
\* and leaves the counter where it was: every later pass does the same
PassInPlace ==
  /\ surface.kind = "SWEEP" /\ surface.pc = "values"
  /\ LET loop == SweepLoop(surface.req.config, surface.req.baseValue[1])
     IN  /\ RLe(surface.at, loop.last)
         /\ Overflow(RAdd(surface.at, loop.step)) = surface.at

\* C29: for every configuration of a sweep the value-generation loop ends,
\* no pass of it being one that repeats forever, and the sweep returns at
\* most 200 results, none of them for a value whose scenario throws
C29_SweepTerminates ==
  /\ ~PassInPlace
  /\ SweepReturned =>
       /\ Len(surface.out[1].value) <= 200
       /\ \A k \in 1..Len(surface.out[1].value) :
            runScenario(surface.req.calcMode,
                        surface.out[1].value[k].parameterValue).ok

----------------------------------------------------------------------------
(* Properties of the run storage *)

StoredRuns == getRuns(surface.item).items

RunsBefore == getRuns(surface.before).items

Called_(op) == surface.kind = "STORAGE" /\ surface.op = op

\* C30: after any sequence of calls, saveRun(r) makes r, as JSON writes it,
\* the first of the stored runs with the earlier ones following in their
\* order, deleteRun(id) removes exactly the runs whose id is id,
\* importFromJSON of a text that is not a JSON array returns false and
\* leaves the stored runs alone, and of a JSON array returns true and makes
\* that array the stored runs
C30_RunStorage ==
  /\ Called_("saveRun") => StoredRuns = <<Serialized(surface.arg)>> \o RunsBefore
  /\ Called_("deleteRun") =>
       LET Kept(run) == ~(run.type = "object" /\ run.id = surface.arg.value)
       IN  StoredRuns = SelectSeq(RunsBefore, Kept)
  /\ Called_("importFromJSON") =>
       IF surface.arg.valid /\ surface.arg.value.type = "array"
       THEN surface.returned = Some(TRUE) /\ StoredRuns = surface.arg.value.items
       ELSE surface.returned = Some(FALSE) /\ StoredRuns = RunsBefore

============================================================================
